---- MODULE Spec2Model ----
(***************************************************************************)
(* Audio_Translator: the live segmentation scheduler (StreamRecorder), the *)
(* recorder's shared frame buffer (AudioRecorder), the silence-interval    *)
(* segmenter (AudioTranscriber.transcribe_from_recorder) and the           *)
(* incremental stitcher (AudioRecorderGUI._extract_new_content).           *)
(*                                                                         *)
(* Time is counted in ticks of 50 ms (the poll loop's sleep), samples in   *)
(* units of one sample at sample_rate samples per second.  A numpy array   *)
(* of consecutive samples of the capture stream is the pair <<lo, hi>> of  *)
(* the stream positions it spans: appending n samples moves hi by n,       *)
(* a[-k:] keeps <<hi - k, hi>>.                                            *)
(***************************************************************************)
EXTENDS Integers, Sequences, FiniteSets, TLC

VARIABLES
  now,             \* time.time(), in ticks
  stop_event,      \* StreamRecorder._stop_event
  stream,          \* StreamRecorder._stream: "none" | "open"
  process_thread,  \* StreamRecorder._process_thread: 0 (None) or a thread id
  lock,            \* holder of StreamRecorder._audio_buffer_lock
  accumulated,     \* StreamRecorder._accumulated_buffer
  is_speech,       \* StreamRecorder._is_speech
  silence_start,   \* StreamRecorder._silence_start
  speech_start,    \* StreamRecorder._speech_start
  th,              \* the poll threads running _process_audio_loop
  cb,              \* the PyAudio callback in progress
  ctl,             \* the caller of start() and stop()
  sessions,        \* calls of start() that opened a stream so far
  st_pc, st_prev, st_cur, st_out,
                   \* _extract_new_content: its arguments and its result
  seg_pc, y_len, non_silent_intervals, merged_intervals, processed_intervals,
  use_silence_detection, segment_count, gateway_calls, raw_segments, context,
  full_text_so_far, result,
                   \* transcribe_from_recorder: its locals and what it returns
                   \* transcribe_from_recorder: the segmentation of a recording
  recording, frames, buffer_lock, rt, caller, captured,
                   \* AudioRecorder: its flag, deque, lock and threads
  realtime_transcription, chunk_frames, last_chunk_time,
                   \* AudioRecorder: the realtime transcription of chunks
  workers,         \* the threads running AudioRecorder._transcribe_chunk
  invocations,     \* the calls of transcription_callback so far
  accumulated_streaming_text, txt, idle_tasks,
                   \* AudioRecorderGUI: the streaming text, the text panel
                   \* and the calls queued with root.after_idle
  live_transcribe  \* the thread running AudioRecorderGUI._live_transcribe

liveVars == <<now, stop_event, stream, process_thread, lock, accumulated,
              is_speech, silence_start, speech_start, th, cb, ctl, sessions>>

stitchVars == <<st_pc, st_prev, st_cur, st_out>>

batchVars == <<use_silence_detection, segment_count, gateway_calls,
               raw_segments, context, full_text_so_far, result>>

segVars == <<seg_pc, y_len, non_silent_intervals, merged_intervals,
             processed_intervals, batchVars>>

recVars == <<recording, frames, buffer_lock, rt, caller, captured>>

realtimeVars == <<realtime_transcription, chunk_frames, last_chunk_time,
                  workers, invocations>>

guiVars == <<accumulated_streaming_text, txt, idle_tasks, live_transcribe>>

nonLive == <<stitchVars, segVars, recVars, realtimeVars, guiVars>>

(* what the recorder's frame buffer operations leave alone *)
notRec == <<liveVars, stitchVars, segVars, guiVars>>

vars == <<liveVars, nonLive>>

----------------------------------------------------------------------------
(* Bounds of the model *)

MaxThreads == 2
MaxSessions == 2
MaxTime == 161
MaxChunks == 2
MaxRestartChunks == 3
TimeStep == 40
MaxLongChunks == 3
SpeechChunks == 40
SilentChunks == 16
MaxWords == 6
MaxSpan == 80
MaxShortSpan == 3
MaxEdge == 2
MaxGap == 2
MaxRecThreads == 2
MaxCaptured == 3
MaxRealtimeFrames == 12
MaxStreamingSessions == 2
MaxWindowed == 40
SparsePeriod == 60
MaxSparseChunks == 3
MaxSparseTime == 204

(* Program constants, durations in ticks of 50 ms *)

MIN_SILENCE_DURATION == 14
MAX_SPEECH_DURATION == 140
force_process_interval == 100
SPEECH_TIME_THRESHOLD == 40
SILENT_TIME_THRESHOLD == 80
POLL_SLEEP == 1
EMPTY_SLEEP == 2
JOIN_TIMEOUT == 40
MIN_AUDIO_TICKS == 30
MAX_BUFFER_SECONDS == 60
TICKS_PER_SECOND == 20

(* sample_rate: the constructor's parameter; one sample per tick *)
sample_rate == 20

min_samples == (MIN_AUDIO_TICKS * sample_rate) \div TICKS_PER_SECOND
max_buffer_size == MAX_BUFFER_SECONDS * sample_rate

----------------------------------------------------------------------------
(* Arrays of consecutive samples *)

EmptyArray(at) == <<at, at>>
ArrLen(a) == a[2] - a[1]
ArrAppend(a, n) == <<a[1], a[2] + n>>
ArrTail(a, k) == <<a[2] - k, a[2]>>

(* The lock *)

FREE == <<"free">>
ByThread(t) == <<"thread", t>>
ByCallback == <<"callback">>

ThreadIds == 1..MaxThreads

DeadThread ==
  [pc |-> "dead", last_position |-> 0, last_process_time |-> 0,
   audio_buffer |-> EmptyArray(0), current_position |-> 0, wake |-> 0,
   triggers |-> {}, pending |-> 0, submitted |-> 0,
   transcription |-> <<>>, surfaced |-> <<>>, callback_error |-> FALSE]

Alive(t) == th[t].pc # "dead"

----------------------------------------------------------------------------
(* StreamRecorder._process_audio_loop: the triggers of one tick *)

NewSamples(t) == th[t].current_position - th[t].last_position
TimeSinceLastProcess(t) == now - th[t].last_process_time

NaturalPause(t) ==
  /\ ~is_speech
  /\ silence_start > 0
  /\ now - silence_start >= MIN_SILENCE_DURATION
  /\ NewSamples(t) >= min_samples

ForcedSpeechBreak(t) ==
  /\ is_speech
  /\ speech_start > 0
  /\ now - speech_start >= MAX_SPEECH_DURATION
  /\ NewSamples(t) >= min_samples

(* one threshold, whatever the speech state *)
AdaptiveIdleAlwaysSilentThreshold(t) ==
  /\ TimeSinceLastProcess(t) >= SILENT_TIME_THRESHOLD
  /\ NewSamples(t) >= min_samples

AdaptiveIdle(t) ==
  /\ TimeSinceLastProcess(t) >=
       (IF is_speech THEN SPEECH_TIME_THRESHOLD ELSE SILENT_TIME_THRESHOLD)
  /\ NewSamples(t) >= min_samples

(* the forced cut waits for min_samples new samples like the other rules *)
AbsoluteForcedWhenEnough(t) ==
  /\ TimeSinceLastProcess(t) >= force_process_interval
  /\ NewSamples(t) >= min_samples

(* the forced cut does not ask for a new sample *)
AbsoluteForcedOnTimeAlone(t) ==
  TimeSinceLastProcess(t) >= force_process_interval

AbsoluteForced(t) ==
  /\ TimeSinceLastProcess(t) >= force_process_interval
  /\ NewSamples(t) > 0

Triggers(t) ==
  {c \in {"natural", "speech", "idle", "forced"} :
     \/ c = "natural" /\ NaturalPause(t)
     \/ c = "speech" /\ ForcedSpeechBreak(t)
     \/ c = "idle" /\ AdaptiveIdle(t)
     \/ c = "forced" /\ AbsoluteForced(t)}

(* one submission for each trigger that holds *)
SubmissionsPerTrigger(trig) == Cardinality(trig)

(* should_process is one flag: a tick submits once however many triggers hold *)
Submissions(trig) == IF trig # {} THEN 1 ELSE 0

(* the segment handed to transcribe_stream *)
(* the oldest max_buffer_size samples are kept *)
ClipHead(a) ==
  IF ArrLen(a) > max_buffer_size THEN <<a[1], a[1] + max_buffer_size>> ELSE a

Clip(a) == IF ArrLen(a) > max_buffer_size THEN ArrTail(a, max_buffer_size) ELSE a

----------------------------------------------------------------------------
(* Scheduling: a step that is not a wait *)
Busy ==
  \/ \E t \in ThreadIds :
       \/ th[t].pc \in {"check", "locked", "eval"}
       \/ th[t].pc = "acquire" /\ lock = FREE
  \/ cb.pc \in {"vad", "stamp"}
  \/ cb.pc = "append" /\ lock = FREE
  \/ ctl.pc = "reset" /\ lock = FREE
  \/ ctl.pc = "joining" /\ ~Alive(process_thread)

(* the due times of the sleeps and of the join in progress *)
Timers ==
  {th[t].wake : t \in {u \in ThreadIds : th[u].pc \in {"sleep", "emptysleep"}}}
    \cup (IF ctl.pc = "joining" THEN {ctl.deadline} ELSE {})

(* the wait due at x ends *)
TimerFires(x) ==
  /\ now >= x
  /\ ~Busy
  /\ \A y \in Timers : x <= y

----------------------------------------------------------------------------
(* The poll thread, one action per step of the loop *)

LoopCheck(t) ==
  /\ th[t].pc = "check"
  /\ th' = [th EXCEPT ![t].pc = IF stop_event THEN "dead" ELSE "acquire"]
  /\ UNCHANGED <<now, stop_event, stream, process_thread, lock, accumulated,
                 is_speech, silence_start, speech_start, cb, ctl, sessions,
                 nonLive>>

LoopAcquire(t) ==
  /\ th[t].pc = "acquire"
  /\ lock = FREE
  /\ lock' = ByThread(t)
  /\ th' = [th EXCEPT ![t].pc = "locked"]
  /\ UNCHANGED <<now, stop_event, stream, process_thread, accumulated,
                 is_speech, silence_start, speech_start, cb, ctl, sessions,
                 nonLive>>

(* len(buffer) == 0: time.sleep(0.1) inside the with block *)
LoopEmpty(t) ==
  /\ th[t].pc = "locked"
  /\ ArrLen(accumulated) = 0
  /\ th' = [th EXCEPT ![t].pc = "emptysleep", ![t].wake = now + EMPTY_SLEEP]
  /\ UNCHANGED <<now, stop_event, stream, process_thread, lock, accumulated,
                 is_speech, silence_start, speech_start, cb, ctl, sessions,
                 nonLive>>

(* the sleep returns, the with block ends, continue *)
LoopEmptyWake(t) ==
  /\ th[t].pc = "emptysleep"
  /\ TimerFires(th[t].wake)
  /\ lock' = FREE
  /\ th' = [th EXCEPT ![t].pc = "check", ![t].wake = 0]
  /\ UNCHANGED <<now, stop_event, stream, process_thread, accumulated,
                 is_speech, silence_start, speech_start, cb, ctl, sessions,
                 nonLive>>

LoopCopy(t) ==
  /\ th[t].pc = "locked"
  /\ ArrLen(accumulated) # 0
  /\ lock' = FREE
  /\ th' = [th EXCEPT ![t].pc = "eval",
                      ![t].audio_buffer = accumulated,
                      ![t].current_position = ArrLen(accumulated)]
  /\ UNCHANGED <<now, stop_event, stream, process_thread, accumulated,
                 is_speech, silence_start, speech_start, cb, ctl, sessions,
                 nonLive>>

(* lines 167-213: the triggers, the clip, the call of transcribe_stream *)
LoopEval(t) ==
  /\ th[t].pc = "eval"
  /\ LET trig == Triggers(t)
         n == Submissions(trig)
     IN th' = [th EXCEPT
                 ![t].triggers = trig,
                 ![t].pending = n,
                 ![t].pc = IF n > 0 THEN "transcribing" ELSE "sleep",
                 ![t].audio_buffer = IF n > 0 THEN Clip(@) ELSE @,
                 ![t].submitted = IF n > 0 THEN 1 ELSE 0,
                 ![t].wake = IF n > 0 THEN 0 ELSE now + POLL_SLEEP]
  /\ UNCHANGED <<now, stop_event, stream, process_thread, lock, accumulated,
                 is_speech, silence_start, speech_start, cb, ctl, sessions,
                 nonLive>>

(* The transcriber is outside the program.  What was said is one word per *)
(* min_samples of the stream, the words of Vocabulary in turn; a text is  *)
(* a sequence of words and of " ", one whitespace character.              *)
Vocabulary == <<"one", "two", "three", "four", "five", "six", "seven">>

WordsOf(a) ==
  [i \in 1..((a[2] \div min_samples) - (a[1] \div min_samples)) |->
     Vocabulary[(((a[1] \div min_samples) + i - 1) % Len(Vocabulary)) + 1]]

Sentence(words) ==
  [i \in 1..(IF words = <<>> THEN 0 ELSE 2 * Len(words) - 1) |->
     IF i % 2 = 1 THEN words[(i + 1) \div 2] ELSE " "]

(* what transcribe_stream may return for a segment: the words said in it, *)
(* or nothing                                                             *)
GatewayTexts(segment) == {<<>>, Sentence(WordsOf(segment))}

(* transcribe_stream returns and the timers are left as they are *)
LoopTranscribedKeepsTimers(t) ==
  /\ th[t].pc = "transcribing"
  /\ \E text \in GatewayTexts(th[t].audio_buffer) :
       th' = [th EXCEPT ![t].pc = "sleep",
                        ![t].pending = 0,
                        ![t].last_position = th[t].current_position,
                        ![t].last_process_time = now,
                        ![t].wake = now + POLL_SLEEP,
                        ![t].transcription = text,
                        ![t].surfaced = IF text # <<>> THEN text ELSE @]
  /\ UNCHANGED <<now, stop_event, stream, process_thread, lock, accumulated,
                 is_speech, silence_start, speech_start, cb, ctl, sessions,
                 nonLive>>

(* transcribe_stream returns; lines 215-231.  th[t].transcription is the  *)
(* local of that name, th[t].surfaced the text last given to              *)
(* on_transcription                                                       *)
LoopTranscribed(t) ==
  /\ th[t].pc = "transcribing"
  /\ IF th[t].pending > 1
       THEN /\ th' = [th EXCEPT ![t].pending = @ - 1, ![t].submitted = @ + 1]
            /\ UNCHANGED <<silence_start, speech_start,
                 nonLive>>
       ELSE /\ \E text \in GatewayTexts(th[t].audio_buffer) :
                 th' = [th EXCEPT ![t].pc = "sleep",
                                  ![t].pending = 0,
                                  ![t].last_position = th[t].current_position,
                                  ![t].last_process_time = now,
                                  ![t].wake = now + POLL_SLEEP,
                                  ![t].transcription = text,
                                  ![t].surfaced = IF text # <<>> THEN text ELSE @]
            /\ silence_start' = IF ~is_speech THEN 0 ELSE silence_start
            /\ speech_start' = IF is_speech THEN now ELSE speech_start
  /\ UNCHANGED <<now, stop_event, stream, process_thread, lock, accumulated,
                 is_speech, cb, ctl, sessions,
                 nonLive>>

(* transcribe_stream raises: lines 210-213 are in no try block, the *)
(* exception leaves _process_audio_loop and the thread ends         *)
LoopTranscribeRaises(t) ==
  /\ th[t].pc = "transcribing"
  /\ th' = [th EXCEPT ![t].pc = "dead", ![t].pending = 0]
  /\ UNCHANGED <<now, stop_event, stream, process_thread, lock, accumulated,
                 is_speech, silence_start, speech_start, cb, ctl, sessions,
                 nonLive>>

(* on_transcription raises and the thread is ended by it *)
LoopCallbackRaisesEndsLoop(t) ==
  /\ th[t].pc = "transcribing"
  /\ th[t].pending <= 1
  /\ GatewayTexts(th[t].audio_buffer) # {<<>>}
  /\ th' = [th EXCEPT ![t].pc = "dead", ![t].pending = 0,
                      ![t].callback_error = TRUE]
  /\ UNCHANGED <<now, stop_event, stream, process_thread, lock, accumulated,
                 is_speech, silence_start, speech_start, cb, ctl, sessions,
                 nonLive>>

(* transcribe_stream returns a text and on_transcription raises: lines     *)
(* 215-231, the except of lines 222-223 taken.  th[t].callback_error is    *)
(* the error logged there.                                                 *)
LoopCallbackRaises(t) ==
  /\ th[t].pc = "transcribing"
  /\ th[t].pending <= 1
  /\ \E text \in GatewayTexts(th[t].audio_buffer) \ {<<>>} :
       th' = [th EXCEPT ![t].pc = "sleep",
                        ![t].pending = 0,
                        ![t].last_position = th[t].current_position,
                        ![t].last_process_time = now,
                        ![t].wake = now + POLL_SLEEP,
                        ![t].transcription = text,
                        ![t].surfaced = text,
                        ![t].callback_error = TRUE]
  /\ silence_start' = IF ~is_speech THEN 0 ELSE silence_start
  /\ speech_start' = IF is_speech THEN now ELSE speech_start
  /\ UNCHANGED <<now, stop_event, stream, process_thread, lock, accumulated,
                 is_speech, cb, ctl, sessions,
                 nonLive>>

(* time.sleep(0.05) returns: the tick is over, its locals are dead *)
LoopWake(t) ==
  /\ th[t].pc = "sleep"
  /\ TimerFires(th[t].wake)
  /\ th' = [th EXCEPT ![t].pc = "check", ![t].wake = 0,
                      ![t].audio_buffer = EmptyArray(0),
                      ![t].current_position = 0,
                      ![t].triggers = {}, ![t].submitted = 0]
  /\ UNCHANGED <<now, stop_event, stream, process_thread, lock, accumulated,
                 is_speech, silence_start, speech_start, cb, ctl, sessions,
                 nonLive>>

Loop(t) ==
  \/ LoopCheck(t)
  \/ LoopAcquire(t)
  \/ LoopEmpty(t)
  \/ LoopEmptyWake(t)
  \/ LoopCopy(t)
  \/ LoopEval(t)
  \/ LoopTranscribed(t)
  \/ LoopWake(t)

----------------------------------------------------------------------------
(* StreamRecorder._audio_callback: a chunk of n samples, silent or not.    *)
(* cap bounds the samples the device delivers in a run.                    *)

CallbackEnter(n, silent, cap) ==
  /\ stream = "open"
  /\ cb.pc = "idle"
  /\ ~stop_event
  /\ accumulated[2] + n <= cap
  /\ cb' = [pc |-> "append", n |-> n, silent |-> silent]
  /\ UNCHANGED <<now, stop_event, stream, process_thread, lock, accumulated,
                 is_speech, silence_start, speech_start, th, ctl, sessions,
                 nonLive>>

CallbackAppend ==
  /\ cb.pc = "append"
  /\ lock = FREE
  /\ accumulated' = ArrAppend(accumulated, cb.n)
  /\ cb' = [cb EXCEPT !.pc = "vad"]
  /\ UNCHANGED <<now, stop_event, stream, process_thread, lock,
                 is_speech, silence_start, speech_start, th, ctl, sessions,
                 nonLive>>

(* every chunk that is not silent stamps speech_start, speaking or not *)
CallbackVadRestamps ==
  /\ cb.pc = "vad"
  /\ is_speech' = IF ~cb.silent /\ ~is_speech THEN TRUE
                  ELSE IF cb.silent /\ is_speech THEN FALSE ELSE is_speech
  /\ speech_start' = IF ~cb.silent THEN now ELSE speech_start
  /\ silence_start' = IF cb.silent /\ is_speech THEN now ELSE silence_start
  /\ cb' = [pc |-> "idle", n |-> 0, silent |-> TRUE]
  /\ UNCHANGED <<now, stop_event, stream, process_thread, lock, accumulated,
                 th, ctl, sessions,
                 nonLive>>

CallbackVad ==
  /\ cb.pc = "vad"
  /\ is_speech' = IF ~cb.silent /\ ~is_speech THEN TRUE
                  ELSE IF cb.silent /\ is_speech THEN FALSE ELSE is_speech
  /\ speech_start' = IF ~cb.silent /\ ~is_speech THEN now ELSE speech_start
  /\ silence_start' = IF cb.silent /\ is_speech THEN now ELSE silence_start
  /\ cb' = [pc |-> "idle", n |-> 0, silent |-> TRUE]
  /\ UNCHANGED <<now, stop_event, stream, process_thread, lock, accumulated,
                 th, ctl, sessions,
                 nonLive>>

(* lines 124-136 step by step: the callback takes no lock for them.  The   *)
(* flag is written first                                                   *)
CallbackFlag ==
  /\ cb.pc = "vad"
  /\ is_speech' = IF ~cb.silent /\ ~is_speech THEN TRUE
                  ELSE IF cb.silent /\ is_speech THEN FALSE ELSE is_speech
  /\ cb' = IF cb.silent = is_speech
             THEN [cb EXCEPT !.pc = "stamp"]
             ELSE [pc |-> "idle", n |-> 0, silent |-> TRUE]
  /\ UNCHANGED <<now, stop_event, stream, process_thread, lock, accumulated,
                 silence_start, speech_start, th, ctl, sessions,
                 nonLive>>

(* and the time of the transition after it *)
CallbackStamp ==
  /\ cb.pc = "stamp"
  /\ speech_start' = IF ~cb.silent THEN now ELSE speech_start
  /\ silence_start' = IF cb.silent THEN now ELSE silence_start
  /\ cb' = [pc |-> "idle", n |-> 0, silent |-> TRUE]
  /\ UNCHANGED <<now, stop_event, stream, process_thread, lock, accumulated,
                 is_speech, th, ctl, sessions,
                 nonLive>>

----------------------------------------------------------------------------
(* StreamRecorder.start and StreamRecorder.stop *)

FreeSlot ==
  CHOOSE t \in ThreadIds : ~Alive(t) /\ \A u \in ThreadIds : ~Alive(u) => t <= u

(* lines 238-259; maxSessions bounds the sessions of a run *)
StartOpen(maxSessions) ==
  /\ ctl.pc = "idle"
  /\ stream = "none"
  /\ sessions < maxSessions
  /\ \E t \in ThreadIds : ~Alive(t)
  /\ stream' = "open"
  /\ stop_event' = FALSE
  /\ sessions' = sessions + 1
  /\ ctl' = [ctl EXCEPT !.pc = "reset"]
  /\ UNCHANGED <<now, process_thread, lock, accumulated, is_speech,
                 silence_start, speech_start, th, cb,
                 nonLive>>

(* lines 261-285 *)
StartThread ==
  /\ ctl.pc = "reset"
  /\ lock = FREE
  /\ accumulated' = EmptyArray(accumulated[2])
  /\ is_speech' = FALSE
  /\ silence_start' = 0
  /\ speech_start' = 0
  /\ th' = [th EXCEPT ![FreeSlot] = [DeadThread EXCEPT !.pc = "check",
                                                       !.last_process_time = now]]
  /\ process_thread' = FreeSlot
  /\ ctl' = [ctl EXCEPT !.pc = "idle"]
  /\ UNCHANGED <<now, stop_event, stream, lock, cb, sessions,
                 nonLive>>

(* lines 297-313, up to the join *)
StopSignal ==
  /\ ctl.pc = "idle"
  /\ cb.pc = "idle"
  /\ stream = "open"
  /\ stop_event' = TRUE
  /\ stream' = "none"
  /\ ctl' = IF process_thread # 0 /\ Alive(process_thread)
              THEN [pc |-> "joining", deadline |-> now + JOIN_TIMEOUT]
              ELSE ctl
  /\ UNCHANGED <<now, process_thread, lock, accumulated, is_speech,
                 silence_start, speech_start, th, cb, sessions,
                 nonLive>>

(* join(timeout=2.0) returns: the thread ended, or the timeout passed *)
StopJoined ==
  /\ ctl.pc = "joining"
  /\ ~Alive(process_thread) \/ TimerFires(ctl.deadline)
  /\ process_thread' = 0
  /\ ctl' = [pc |-> "idle", deadline |-> 0]
  /\ UNCHANGED <<now, stop_event, stream, lock, accumulated, is_speech,
                 silence_start, speech_start, th, cb, sessions,
                 nonLive>>

----------------------------------------------------------------------------
(* The clock.  The steps of a thread take no time: time passes while    *)
(* every thread sleeps, waits for the lock, waits in join or waits for     *)
(* transcribe_stream to return.  Sleeps and the join end in the order of   *)
(* their due times.                                                        *)

Advance(d, maxTime) ==
  /\ ~Busy
  /\ \A x \in Timers : x > now
  /\ now + d <= maxTime
  /\ now' = now + d
  /\ UNCHANGED <<stop_event, stream, process_thread, lock, accumulated,
                 is_speech, silence_start, speech_start, th, cb, ctl, sessions,
                 nonLive>>

----------------------------------------------------------------------------
(* time.time() when the recorder is constructed *)
Epoch == 1

LiveInit ==
  /\ now = Epoch
  /\ stop_event = FALSE
  /\ stream = "none"
  /\ process_thread = 0
  /\ lock = FREE
  /\ accumulated = EmptyArray(0)
  /\ is_speech = FALSE
  /\ silence_start = 0
  /\ speech_start = 0
  /\ th = [t \in ThreadIds |-> DeadThread]
  /\ cb = [pc |-> "idle", n |-> 0, silent |-> TRUE]
  /\ ctl = [pc |-> "idle", deadline |-> 0]
  /\ sessions = 0

(* The parts of the state a specification does not run stay as constructed *)
StitchIdle ==
  /\ st_pc = "idle"
  /\ st_prev = <<>>
  /\ st_cur = <<>>
  /\ st_out = <<>>

NoResult == [message |-> "none", processed_segments |-> <<>>, full_text |-> <<>>]

(* transcribe_from_recorder, lines 154-160: the locals before the loop; a  *)
(* text is a sequence of words and " ", None and "" are the empty one      *)
BatchStart ==
  /\ segment_count = 0
  /\ gateway_calls = <<>>
  /\ raw_segments = <<>>
  /\ context = <<>>
  /\ full_text_so_far = <<>>
  /\ result = NoResult

SegIdle ==
  /\ seg_pc = "idle"
  /\ y_len = 0
  /\ non_silent_intervals = <<>>
  /\ merged_intervals = <<>>
  /\ processed_intervals = <<>>
  /\ use_silence_detection = TRUE
  /\ BatchStart

(* AudioRecorder.__init__ *)
RecIdle ==
  /\ recording = FALSE
  /\ frames = <<>>
  /\ buffer_lock = FREE
  /\ rt = [i \in 1..MaxRecThreads |-> [pc |-> "none", data |-> 0]]
  /\ caller = [pc |-> "idle", snapshot |-> [alias |-> FALSE, items |-> <<>>]]
  /\ captured = 0
  /\ realtime_transcription = FALSE
  /\ chunk_frames = <<>>
  /\ last_chunk_time = 0
  /\ workers = {}
  /\ invocations = <<>>

(* AudioRecorderGUI.__init__ *)
GuiIdle ==
  /\ accumulated_streaming_text = <<>>
  /\ txt = <<>>
  /\ idle_tasks = <<>>
  /\ live_transcribe = [pc |-> "none", frames |-> <<>>, launches |-> 0]

Init == LiveInit /\ StitchIdle /\ SegIdle /\ RecIdle /\ GuiIdle

(* one session; chunks shorter and longer than min_samples *)
Next ==
  \/ \E t \in ThreadIds : Loop(t)
  \/ \E n \in {min_samples \div 3, min_samples}, silent \in BOOLEAN :
       CallbackEnter(n, silent, MaxChunks * min_samples)
  \/ CallbackAppend
  \/ CallbackVad
  \/ StartOpen(1)
  \/ StartThread
  \/ StopSignal
  \/ StopJoined
  \/ Advance(TimeStep, MaxTime)

Spec == Init /\ [][Next]_vars

(* one session whose transcriber may fail *)
NextFault ==
  \/ \E t \in ThreadIds : Loop(t)
  \/ \E t \in ThreadIds : LoopTranscribeRaises(t)
  \/ \E n \in {min_samples \div 3, min_samples}, silent \in BOOLEAN :
       CallbackEnter(n, silent, MaxChunks * min_samples)
  \/ CallbackAppend
  \/ CallbackVad
  \/ StartOpen(1)
  \/ StartThread
  \/ StopSignal
  \/ StopJoined
  \/ Advance(TimeStep, MaxTime)

SpecFault == Init /\ [][NextFault]_vars

(* one session whose on_transcription may raise; chunks of min_samples *)
NextCallbackFault ==
  \/ \E t \in ThreadIds : Loop(t)
  \/ \E t \in ThreadIds : LoopCallbackRaises(t)
  \/ \E silent \in BOOLEAN :
       CallbackEnter(min_samples, silent, MaxChunks * min_samples)
  \/ CallbackAppend
  \/ CallbackVad
  \/ StartOpen(1)
  \/ StartThread
  \/ StopSignal
  \/ StopJoined
  \/ Advance(TimeStep, MaxTime)

SpecCallbackFault == Init /\ [][NextCallbackFault]_vars

(* one session, the callback's writes of the flag and of the time apart *)
NextRace ==
  \/ \E t \in ThreadIds : Loop(t)
  \/ \E n \in {min_samples \div 3, min_samples}, silent \in BOOLEAN :
       CallbackEnter(n, silent, MaxChunks * min_samples)
  \/ CallbackAppend
  \/ CallbackFlag
  \/ CallbackStamp
  \/ StartOpen(1)
  \/ StartThread
  \/ StopSignal
  \/ StopJoined
  \/ Advance(TimeStep, MaxTime)

SpecRace == Init /\ [][NextRace]_vars

(* start(), stop(), start() again; chunks of min_samples *)
NextRestart ==
  \/ \E t \in ThreadIds : Loop(t)
  \/ \E silent \in BOOLEAN :
       CallbackEnter(min_samples, silent, MaxRestartChunks * min_samples)
  \/ CallbackAppend
  \/ CallbackVad
  \/ StartOpen(MaxSessions)
  \/ StartThread
  \/ StopSignal
  \/ StopJoined
  \/ Advance(TimeStep, MaxTime)

SpecRestart == Init /\ [][NextRestart]_vars

(* one long session: the device delivers more than max_buffer_size samples *)
NextLong ==
  \/ \E t \in ThreadIds : Loop(t)
  \/ \E silent \in BOOLEAN :
       CallbackEnter(max_buffer_size \div 2, silent,
                     MaxLongChunks * (max_buffer_size \div 2))
  \/ CallbackAppend
  \/ CallbackVad
  \/ StartOpen(1)
  \/ StartThread
  \/ StopSignal
  \/ StopJoined
  \/ Advance(TimeStep, MaxTime)

SpecLong == Init /\ [][NextLong]_vars

(* A fresh session whose device delivers, one chunk of one tick per tick,  *)
(* SpeechChunks chunks of speech and then SilentChunks chunks of silence.  *)
(* start() runs at Epoch; chunk k is due at Epoch + k.                     *)
Delivered == accumulated[2] + (IF cb.pc = "append" THEN cb.n ELSE 0)

ChunkDue ==
  /\ Delivered < SpeechChunks + SilentChunks
  /\ now >= Epoch + Delivered + 1

PauseEnd == Epoch + SpeechChunks + SilentChunks

PauseChunk ==
  /\ ChunkDue
  /\ CallbackEnter(1, Delivered >= SpeechChunks, SpeechChunks + SilentChunks)

PauseAdvance ==
  /\ stream = "open"
  /\ ctl.pc = "idle"
  /\ ~(ChunkDue /\ cb.pc = "idle")
  /\ Advance(1, PauseEnd)

NextPause ==
  \/ \E t \in ThreadIds : Loop(t)
  \/ PauseChunk
  \/ CallbackAppend
  \/ CallbackVad
  \/ StartOpen(1)
  \/ StartThread
  \/ PauseAdvance

SpecPause == Init /\ [][NextPause]_vars

(* A fresh session whose device delivers little: one chunk of one sample   *)
(* every SparsePeriod ticks, all of speech or all of silence, so that      *)
(* fewer than min_samples samples arrive in force_process_interval.  The   *)
(* sleeps end when they are due.                                           *)
SparseDue ==
  /\ Delivered < MaxSparseChunks
  /\ now >= Epoch + (Delivered + 1) * SparsePeriod

SparseChunk ==
  /\ SparseDue
  /\ \E silent \in BOOLEAN :
       /\ Delivered > 0 => silent = ~is_speech
       /\ CallbackEnter(1, silent, MaxSparseChunks)

SparseAdvance ==
  /\ stream = "open"
  /\ ctl.pc = "idle"
  /\ ~(SparseDue /\ cb.pc = "idle")
  /\ Advance(1, MaxSparseTime)

NextSparse ==
  \/ \E t \in ThreadIds : Loop(t)
  \/ SparseChunk
  \/ CallbackAppend
  \/ CallbackVad
  \/ StartOpen(1)
  \/ StartThread
  \/ SparseAdvance

SpecSparse == Init /\ [][NextSparse]_vars

----------------------------------------------------------------------------
(* AudioRecorderGUI._extract_new_content.  A text is a sequence of tokens:  *)
(* a word, or " " for one whitespace character.                            *)

Min(a, b) == IF a < b THEN a ELSE b

(* str.split() *)
Split(text) == SelectSeq(text, LAMBDA x : x # " ")

(* " ".join(words) *)
RECURSIVE Join(_)
Join(words) ==
  IF words = <<>> THEN <<>>
  ELSE IF Len(words) = 1 THEN <<words[1]>>
  ELSE <<words[1], " ">> \o Join(Tail(words))

(* words[:i] *)
UpTo(words, i) == SubSeq(words, 1, i)

(* words[i:], i counted from 0 *)
From(words, i) == SubSeq(words, i + 1, Len(words))

(* the last words of words_previous are found nowhere *)
MatchNowhere(words_previous, words_current, k, i) == FALSE

(* the inner loop of lines 419-423: the last k words of words_previous are *)
(* at offset i of words_current                                            *)
MatchAt(words_previous, words_current, k, i) ==
  \A j \in 0..(k - 1) :
    /\ i + j < Len(words_current)
    /\ j < Len(words_previous)
    /\ words_current[i + j + 1] = words_previous[Len(words_previous) - k + j + 1]

(* an empty previous_text takes the path of the other texts *)
NoEmptyShortcut(previous_text) == FALSE

(* line 396: not previous_text *)
IsEmptyText(previous_text) == previous_text = <<>>

(* two texts are never taken for the same *)
NeverIdentical(previous_text, current_text) == FALSE

(* line 400: previous_text == current_text *)
IsIdentical(previous_text, current_text) == previous_text = current_text

ExtractNewContent(previous_text, current_text) ==
  IF IsEmptyText(previous_text) THEN current_text
  ELSE IF IsIdentical(previous_text, current_text) THEN <<>>
  ELSE
    LET words_previous == Split(previous_text)
        words_current == Split(current_text)
        overlap_threshold == Min(Len(words_previous), 5)
        matches == {i \in 0..(Len(words_current) - overlap_threshold) :
                      MatchAt(words_previous, words_current, overlap_threshold, i)}
        half_point == Len(words_current) \div 2
    IN IF Len(words_current) < Len(words_previous) THEN current_text
       ELSE IF matches # {}
         THEN LET i == CHOOSE x \in matches : \A y \in matches : x <= y
              IN Join(From(words_current, i + overlap_threshold))
       ELSE Join(From(words_current, half_point))

(* The texts the stitcher is run on *)
RECURSIVE Spaced(_)
Spaced(words) ==
  IF words = <<>> THEN <<" ">>
  ELSE <<" ", words[1], " ">> \o Spaced(Tail(words))

WordSeqs == UNION {[1..n -> {"a", "b"}] : n \in 0..MaxWords}

Examples ==
  {Join(<<"the", "quick", "brown", "fox">>),
   Join(<<"quick", "brown", "fox", "jumps", "high">>),
   Join(<<"hello", "world">>)}

Texts == {Join(w) : w \in WordSeqs} \cup {Spaced(w) : w \in WordSeqs}
           \cup Examples

StitchInit ==
  /\ st_pc = "call"
  /\ st_prev \in Texts
  /\ st_cur \in Texts
  /\ st_out = <<>>

Stitch ==
  /\ st_pc = "call"
  /\ st_out' = ExtractNewContent(st_prev, st_cur)
  /\ st_pc' = "done"
  /\ UNCHANGED <<st_prev, st_cur, liveVars, segVars, recVars, realtimeVars, guiVars>>

NextStitch == Stitch

InitStitch == LiveInit /\ StitchInit /\ SegIdle /\ RecIdle /\ GuiIdle

SpecStitch == InitStitch /\ [][NextStitch]_vars

----------------------------------------------------------------------------
(* AudioTranscriber.transcribe_from_recorder, silence-based segmentation.  *)
(* An interval is <<start_sample, end_sample>>; sr samples make a second.  *)

sr == 6
smaller_segment_length == 6
overlap_seconds == smaller_segment_length \div 2

max_gap == (3 * sr) \div 10
padding == (5 * sr) \div 10
segment_samples == smaller_segment_length * sr
overlap_samples == overlap_seconds * sr
step == segment_samples - overlap_samples

Max(a, b) == IF a > b THEN a ELSE b

(* the comparison with max_gap is strict *)
RECURSIVE MergeLoopStrict(_, _, _)
MergeLoopStrict(intervals, current_interval, merged) ==
  IF intervals = <<>> THEN Append(merged, current_interval)
  ELSE LET interval == Head(intervals)
       IN IF interval[1] - current_interval[2] < max_gap
            THEN MergeLoopStrict(Tail(intervals),
                                 <<current_interval[1], interval[2]>>, merged)
            ELSE MergeLoopStrict(Tail(intervals), interval,
                                 Append(merged, current_interval))

(* lines 175-188: intervals closer than max_gap become one *)
RECURSIVE MergeLoop(_, _, _)
MergeLoop(intervals, current_interval, merged) ==
  IF intervals = <<>> THEN Append(merged, current_interval)
  ELSE LET interval == Head(intervals)
       IN IF interval[1] - current_interval[2] <= max_gap
            THEN MergeLoop(Tail(intervals),
                           <<current_interval[1], interval[2]>>, merged)
            ELSE MergeLoop(Tail(intervals), interval,
                           Append(merged, current_interval))

MergeIntervals(intervals) ==
  IF intervals = <<>> THEN <<>>
  ELSE MergeLoop(Tail(intervals), Head(intervals), <<>>)

(* lines 212-222: the sub-segments of a long interval, from seg_start on *)
RECURSIVE SplitLoop(_, _, _)
SplitLoop(processed, seg_start, end_sample) ==
  IF seg_start >= end_sample THEN processed
  ELSE
    LET seg_end == Min(seg_start + segment_samples, end_sample)
        out == IF /\ 2 * (end_sample - seg_start) < segment_samples
                  /\ Len(processed) > 0
                 THEN [processed EXCEPT ![Len(processed)][2] = end_sample]
                 ELSE Append(processed, <<seg_start, seg_end>>)
    IN IF 2 * seg_end >= 2 * end_sample - segment_samples
         THEN out
         ELSE SplitLoop(out, seg_start + step, end_sample)

(* a short interval is widened and not clipped to the recording *)
NormalizeUnclipped(processed, interval, length) ==
  LET short == interval[2] - interval[1] < sr
      start_sample == IF short THEN interval[1] - padding ELSE interval[1]
      end_sample == IF short THEN interval[2] + padding ELSE interval[2]
  IN IF end_sample - start_sample > smaller_segment_length * sr
       THEN SplitLoop(processed, start_sample, end_sample)
       ELSE Append(processed, <<start_sample, end_sample>>)

(* lines 194-225: one merged interval, padded or split *)
NormalizeAndSplit(processed, interval, length) ==
  LET short == interval[2] - interval[1] < sr
      start_sample == IF short THEN Max(0, interval[1] - padding) ELSE interval[1]
      end_sample == IF short THEN Min(length, interval[2] + padding) ELSE interval[2]
  IN IF end_sample - start_sample > smaller_segment_length * sr
       THEN SplitLoop(processed, start_sample, end_sample)
       ELSE Append(processed, <<start_sample, end_sample>>)

RECURSIVE ProcessIntervals(_, _, _)
ProcessIntervals(processed, intervals, length) ==
  IF intervals = <<>> THEN processed
  ELSE ProcessIntervals(NormalizeAndSplit(processed, Head(intervals), length),
                        Tail(intervals), length)

(* The recordings: what librosa.effects.split reports, ordered and         *)
(* disjoint.  spans are the lengths of the intervals, gaps the silences    *)
(* between them, lead and tail the silences at the edges.                  *)
RECURSIVE Layout(_, _, _)
Layout(at, spans, gaps) ==
  IF spans = <<>> THEN <<>>
  ELSE IF gaps = <<>> THEN <<<<at, at + spans[1]>>>>
  ELSE <<<<at, at + spans[1]>>>>
         \o Layout(at + spans[1] + gaps[1], Tail(spans), Tail(gaps))

Recorded(lead, spans, gaps, tail) ==
  LET intervals == Layout(lead, spans, gaps)
  IN /\ non_silent_intervals = intervals
     /\ y_len = intervals[Len(intervals)][2] + tail

SegInit ==
  /\ seg_pc = "loaded"
  /\ \E lead \in 0..MaxEdge, tail \in 0..MaxEdge :
       \/ \E a \in 1..MaxSpan : Recorded(lead, <<a>>, <<>>, tail)
       \/ \E a \in 1..MaxSpan, b \in 1..MaxSpan, g \in 1..MaxGap :
            /\ a + b <= MaxSpan
            /\ Recorded(lead, <<a, b>>, <<g>>, tail)
       \/ \E a \in 1..MaxShortSpan, b \in 1..MaxShortSpan, c \in 1..MaxShortSpan,
             g \in 1..MaxGap, h \in 1..MaxGap :
            Recorded(lead, <<a, b, c>>, <<g, h>>, tail)
  /\ merged_intervals = <<>>
  /\ processed_intervals = <<>>
  /\ use_silence_detection = TRUE
  /\ BatchStart

SegMerge ==
  /\ seg_pc = "loaded"
  /\ use_silence_detection
  /\ merged_intervals' = MergeIntervals(non_silent_intervals)
  /\ seg_pc' = "merged"
  /\ UNCHANGED <<y_len, non_silent_intervals, processed_intervals, batchVars,
                 liveVars, stitchVars, recVars, realtimeVars,
                 guiVars>>

SegSplit ==
  /\ seg_pc = "merged"
  /\ processed_intervals' = ProcessIntervals(<<>>, merged_intervals, y_len)
  /\ seg_pc' = "segmented"
  /\ UNCHANGED <<y_len, non_silent_intervals, merged_intervals, batchVars,
                 liveVars, stitchVars, recVars, realtimeVars,
                 guiVars>>

NextSeg == SegMerge \/ SegSplit

InitSeg == LiveInit /\ StitchIdle /\ SegInit /\ RecIdle /\ GuiIdle

SpecSeg == InitSeg /\ [][NextSeg]_vars

----------------------------------------------------------------------------
(* AudioTranscriber.transcribe_from_recorder, the segments given to the    *)
(* gateway (transcribe_file) and the text returned.  The WAV file is the   *)
(* one librosa loaded with sr=None: its frames are the samples.            *)

rate == sr
n_frames == (y_len * rate) \div sr
segment_frames == rate * smaller_segment_length
(* a step of the whole window: no overlap *)
WholeWindowStep == segment_frames

effective_step == segment_frames \div 4

(* str.strip() *)
RECURSIVE Strip(_)
Strip(text) ==
  IF text = <<>> THEN <<>>
  ELSE IF Head(text) = " " THEN Strip(Tail(text))
  ELSE IF text[Len(text)] = " " THEN Strip(SubSeq(text, 1, Len(text) - 1))
  ELSE text

(* str.startswith() *)
StartsWith(text, phrase) ==
  Len(phrase) <= Len(text) /\ SubSeq(text, 1, Len(phrase)) = phrase

(* What was said in the frames: one word for every second begun.  The      *)
(* gateway returns it, or nothing, or it with the last two words of the    *)
(* prompt said again before it.                                            *)
Said(start_frame, num_frames) ==
  Sentence([k \in 1..((num_frames + rate - 1) \div rate) |->
              Vocabulary[(((start_frame \div rate) + k - 1) % Len(Vocabulary)) + 1]])

FileTexts(start_frame, num_frames, initial_prompt) ==
  LET words == Split(initial_prompt)
  IN {<<>>, Said(start_frame, num_frames)}
       \cup (IF Len(words) >= 2
               THEN {Join(From(words, Len(words) - 2)) \o <<" ">>
                       \o Said(start_frame, num_frames)}
               ELSE {})

(* lines 233-239 *)
StartFrame(interval) == Max(0, (interval[1] * rate) \div sr)

NumFrames(interval) ==
  Min(((interval[2] - interval[1]) * rate) \div sr, n_frames - StartFrame(interval))

(* line 260: segment_duration < 0.5 *)
TooShort(num_frames) == 2 * num_frames < rate

Call(start_frame, num_frames) ==
  [segment |-> segment_count + 1, start_frame |-> start_frame,
   num_frames |-> num_frames, initial_prompt |-> context]

(* lines 282-293 and 355-366 *)
Keep(calls, seg_text) ==
  /\ gateway_calls' = gateway_calls \o calls
  /\ raw_segments' = Append(raw_segments, seg_text)
  /\ context' = IF Strip(seg_text) # <<>> THEN seg_text ELSE context
  /\ full_text_so_far' =
       IF Strip(seg_text) = <<>> THEN full_text_so_far
       ELSE IF full_text_so_far # <<>>
         THEN full_text_so_far \o <<" ">> \o seg_text
         ELSE seg_text

(* lines 266-280 and 338-353: the call of transcribe_file, and a second    *)
(* one on a wider span when the first returned nothing for a segment long  *)
(* enough                                                                  *)
TranscribeFile(start_frame, num_frames, long_enough) ==
  \E seg_text \in FileTexts(start_frame, num_frames, context) :
    IF Strip(seg_text) = <<>> /\ long_enough
      THEN LET expanded_start == Max(0, start_frame - rate \div 2)
               expanded_frames == Min(n_frames - expanded_start, num_frames + rate)
           IN \E again \in FileTexts(expanded_start, expanded_frames, context) :
                Keep(<<Call(start_frame, num_frames),
                       Call(expanded_start, expanded_frames)>>, again)
      ELSE Keep(<<Call(start_frame, num_frames)>>, seg_text)

(* lines 230-296: one turn of the loop over processed_intervals *)
SegmentLoop ==
  /\ seg_pc = "segmented"
  /\ use_silence_detection
  /\ segment_count < Len(processed_intervals)
  /\ segment_count' = segment_count + 1
  /\ LET interval == processed_intervals[segment_count + 1]
         start_frame == StartFrame(interval)
         num_frames == NumFrames(interval)
     IN IF TooShort(num_frames)
          THEN UNCHANGED <<gateway_calls, raw_segments, context, full_text_so_far>>
          ELSE TranscribeFile(start_frame, num_frames, num_frames > rate)
  /\ UNCHANGED <<seg_pc, y_len, non_silent_intervals, merged_intervals,
                 processed_intervals, use_silence_detection, result,
                 liveVars, stitchVars, recVars, realtimeVars, guiVars>>

(* lines 310-370: one turn of the loop over the fixed windows *)
WindowLoop ==
  /\ seg_pc = "loaded"
  /\ ~use_silence_detection
  /\ segment_count * effective_step < n_frames
  /\ segment_count' = segment_count + 1
  /\ LET start_pos == Max(0, segment_count * effective_step)
         frames_to_read == Min(segment_frames, n_frames - start_pos)
     IN IF 2 * frames_to_read < 3 * rate /\ segment_count' > 1
          THEN UNCHANGED <<gateway_calls, raw_segments, context, full_text_so_far>>
          ELSE TranscribeFile(start_pos, frames_to_read, frames_to_read > rate * 2)
  /\ UNCHANGED <<seg_pc, y_len, non_silent_intervals, merged_intervals,
                 processed_intervals, use_silence_detection, result,
                 liveVars, stitchVars, recVars, realtimeVars, guiVars>>

(* lines 389-396: the longest of the last 8, 6, 4 or 2 words of the        *)
(* previous text that the text starts with is taken off                    *)
RECURSIVE RemoveOverlap(_, _, _)
RemoveOverlap(text, words, sizes) ==
  IF sizes = <<>> THEN text
  ELSE LET phrase == Join(From(words, Len(words) - Head(sizes)))
       IN IF Len(words) >= Head(sizes) /\ StartsWith(text, phrase)
            THEN Strip(SubSeq(text, Len(phrase) + 1, Len(text)))
            ELSE RemoveOverlap(text, words, Tail(sizes))

(* lines 373-399; label is the number after "Segment", i + 1 for the       *)
(* index i counted from 0                                                  *)
RECURSIVE ProcessedSegments(_, _)
ProcessedSegments(raw, i) ==
  IF i > Len(raw) THEN <<>>
  ELSE IF Strip(raw[i]) = <<>> THEN ProcessedSegments(raw, i + 1)
  ELSE IF i > 1 /\ Strip(raw[i - 1]) = <<>> THEN ProcessedSegments(raw, i + 1)
  ELSE <<[label |-> i,
          text |-> IF i > 1
                     THEN RemoveOverlap(raw[i], Split(raw[i - 1]), <<8, 6, 4, 2>>)
                     ELSE raw[i]]>>
         \o ProcessedSegments(raw, i + 1)

(* lines 401-408: what is returned, the entries joined by blank lines and  *)
(* the full text under its heading, or the message of failure              *)
PostProcess ==
  /\ \/ seg_pc = "segmented" /\ use_silence_detection
          /\ segment_count = Len(processed_intervals)
     \/ seg_pc = "loaded" /\ ~use_silence_detection
          /\ segment_count * effective_step >= n_frames
  /\ LET processed_segments == ProcessedSegments(raw_segments, 1)
     IN result' =
          IF processed_segments = <<>>
            THEN [message |-> "could not transcribe",
                  processed_segments |-> <<>>, full_text |-> <<>>]
            ELSE [message |-> "segments",
                  processed_segments |-> processed_segments,
                  full_text |-> full_text_so_far]
  /\ seg_pc' = "returned"
  /\ UNCHANGED <<y_len, non_silent_intervals, merged_intervals,
                 processed_intervals, use_silence_detection, segment_count,
                 gateway_calls, raw_segments, context, full_text_so_far,
                 liveVars, stitchVars, recVars, realtimeVars, guiVars>>

(* The recordings of the whole run: one interval of any length, two or     *)
(* three short ones, or no interval detected (or no detection) and the     *)
(* fixed windows.                                                          *)
BatchInit ==
  /\ seg_pc = "loaded"
  /\ \/ /\ use_silence_detection = TRUE
        /\ \E lead \in 0..MaxEdge, tail \in 0..MaxEdge :
             \/ \E a \in 1..MaxSpan : Recorded(lead, <<a>>, <<>>, tail)
             \/ \E a \in 1..MaxShortSpan, b \in 1..MaxShortSpan, g \in 1..MaxGap :
                  Recorded(lead, <<a, b>>, <<g>>, tail)
             \/ \E a \in 1..MaxShortSpan, b \in 1..MaxShortSpan,
                   c \in 1..MaxShortSpan, g \in 1..MaxGap, h \in 1..MaxGap :
                  Recorded(lead, <<a, b, c>>, <<g, h>>, tail)
     \/ /\ use_silence_detection = FALSE
        /\ non_silent_intervals = <<>>
        /\ y_len \in 1..MaxWindowed
  /\ merged_intervals = <<>>
  /\ processed_intervals = <<>>
  /\ BatchStart

NextBatch == SegMerge \/ SegSplit \/ SegmentLoop \/ WindowLoop \/ PostProcess

InitBatch == LiveInit /\ StitchIdle /\ BatchInit /\ RecIdle /\ GuiIdle

SpecBatch == InitBatch /\ [][NextBatch]_vars

----------------------------------------------------------------------------
(* AudioRecorder: the frame deque, its lock, the record threads, the       *)
(* realtime transcription of chunks and the thread that calls the          *)
(* recorder's methods.  A frame is the number of the chunk read from the   *)
(* device.  The device delivers one frame per frame time (CHUNK_SIZE /     *)
(* SAMPLE_RATE seconds) and stream.read blocks until the next one is there, *)
(* so time.time() counted in frame times is the number of frames captured. *)
(* No chunk processor is set: set_chunk_processor has no caller.           *)

(* the deque's maxlen *)
max_chunks == 2

(* chunk_duration=3.0 of toggle_streaming, in frame times *)
chunk_duration == 6

(* line 191: len(self.chunk_frames) < 5 *)
min_chunk_frames == 5

(* max_chunk_size, 3 seconds, in frames *)
max_chunk_size == chunk_duration

RecIds == 1..MaxRecThreads
ByRecorder(i) == <<"recorder", i>>
ByCaller == <<"caller">>

(* time.time() *)
current_time == captured

(* A text is the sequence of the frames it transcribes; the fixed texts: *)
(* "Transcrição iniciada. Aguardando áudio..." *)
StartedText == <<0>>
(* "[Erro: ...]" *)
ErrorText == <<-1>>
(* "Iniciando transcrição..." *)
PanelNotice == <<-2>>
(* "--- Transcrição Completa ---" *)
CompleteMark == <<-3>>

(* collections.deque(maxlen=max_chunks).append *)
DequeAppend(d, x) ==
  IF Len(d) < max_chunks THEN Append(d, x) ELSE Append(Tail(d), x)

(* What a consumer holds: a list of its own (items), or the recorder's *)
(* deque itself (alias), whose items are those of frames at any time   *)
Contents(held) == IF held.alias THEN frames ELSE held.items

(* the deque is handed out as it is *)
SameDeque(d) == [alias |-> TRUE, items |-> <<>>]

(* list(self.frames): a new list of the frames the deque holds *)
ListCopy(d) == [alias |-> FALSE, items |-> d]

(* a[-k:] of a list *)
LastOf(a, k) ==
  IF Len(a) <= k THEN a ELSE SubSeq(a, Len(a) - k + 1, Len(a))

RecFreeSlot ==
  CHOOSE i \in RecIds :
    /\ rt[i].pc \in {"none", "done"}
    /\ \A j \in RecIds : rt[j].pc \in {"none", "done"} => i <= j

(* AudioRecorderGUI._streaming_transcription_callback *)
StreamingTranscriptionCallback(text, is_final) ==
  IF text = <<>>
    THEN UNCHANGED guiVars
    ELSE /\ accumulated_streaming_text' = text
         /\ idle_tasks' = Append(idle_tasks,
                                 [text |-> text, is_final |-> is_final])
         /\ UNCHANGED <<txt, live_transcribe>>

(* self.transcription_callback(text, is_final) *)
TranscriptionCallback(text, is_final) ==
  /\ invocations' = Append(invocations, [text |-> text, is_final |-> is_final])
  /\ StreamingTranscriptionCallback(text, is_final)

(* _record_thread, line 122: while self.recording *)
RecLoopCheck(i) ==
  /\ rt[i].pc = "check"
  /\ rt' = [rt EXCEPT ![i].pc = IF recording THEN "read" ELSE "done"]
  /\ UNCHANGED <<recording, frames, buffer_lock, caller, captured,
                 realtimeVars, notRec>>

(* lines 125, 133: stream.read returns a chunk; cap bounds the frames the *)
(* device delivers in a run                                              *)
RecRead(i, cap) ==
  /\ rt[i].pc = "read"
  /\ captured < cap
  /\ captured' = captured + 1
  /\ rt' = [rt EXCEPT ![i].pc = "acquire", ![i].data = captured + 1]
  /\ UNCHANGED <<recording, frames, buffer_lock, caller, realtimeVars, notRec>>

(* lines 126-130: stream.read raises OSError, sleep and continue *)
RecReadError(i) ==
  /\ rt[i].pc = "read"
  /\ rt' = [rt EXCEPT ![i].pc = "check"]
  /\ UNCHANGED <<recording, frames, buffer_lock, caller, captured,
                 realtimeVars, notRec>>

(* line 136: with self.buffer_lock *)
RecAcquire(i) ==
  /\ rt[i].pc = "acquire"
  /\ buffer_lock = FREE
  /\ buffer_lock' = ByRecorder(i)
  /\ rt' = [rt EXCEPT ![i].pc = "append"]
  /\ UNCHANGED <<recording, frames, caller, captured, realtimeVars, notRec>>

(* line 137; line 139: if self.realtime_transcription.  Without it the *)
(* iteration ends: chunk_processor is None                             *)
RecAppend(i) ==
  /\ rt[i].pc = "append"
  /\ frames' = DequeAppend(frames, rt[i].data)
  /\ buffer_lock' = FREE
  /\ rt' = IF realtime_transcription
             THEN [rt EXCEPT ![i].pc = "chunk"]
             ELSE [rt EXCEPT ![i].pc = "check", ![i].data = 0]
  /\ UNCHANGED <<recording, caller, captured, realtimeVars, notRec>>

(* lines 140-149 with _process_audio_chunk, lines 185-209: the chunk is *)
(* handed to a new thread running _transcribe_chunk                     *)
RecChunk(i) ==
  /\ rt[i].pc = "chunk"
  /\ LET appended == Append(chunk_frames, rt[i].data)
         chunk_time == current_time - last_chunk_time
     IN  IF chunk_time >= chunk_duration
           THEN /\ IF Len(appended) < min_chunk_frames
                     THEN /\ chunk_frames' = appended
                          /\ UNCHANGED workers
                     ELSE /\ chunk_frames' = <<>>
                          /\ workers' = workers \cup
                               {[chunk_data |-> LastOf(appended, max_chunk_size)]}
                /\ last_chunk_time' = current_time
           ELSE /\ chunk_frames' = appended
                /\ UNCHANGED <<workers, last_chunk_time>>
  /\ rt' = [rt EXCEPT ![i].pc = "check", ![i].data = 0]
  /\ UNCHANGED <<recording, frames, buffer_lock, caller, captured,
                 realtime_transcription, invocations, notRec>>

(* the iteration without realtime transcription; RecChunk is the rest of *)
(* it with realtime transcription                                       *)
RecordThread(i, cap) ==
  \/ RecLoopCheck(i)
  \/ RecRead(i, cap)
  \/ RecReadError(i)
  \/ RecAcquire(i)
  \/ RecAppend(i)

(* _transcribe_chunk, lines 213-229: transcribe_audio returns its text, *)
(* empty when it hears no speech                                        *)
TranscribeChunkReturns(w, heard) ==
  /\ w \in workers
  /\ workers' = workers \ {w}
  /\ TranscriptionCallback(IF heard THEN w.chunk_data ELSE <<>>, FALSE)
  /\ UNCHANGED <<recVars, realtime_transcription, chunk_frames,
                 last_chunk_time, liveVars, stitchVars, segVars>>

(* What the transcriber may raise: the RuntimeError of tensors whose sizes *)
(* do not match, or any other exception                                   *)
Failures == {"mismatch", "other"}

(* _transcribe_chunk, lines 231-236: transcribe_audio raises; the handler  *)
(* is except Exception, whatever was raised.  The handler that tells the   *)
(* mismatch from the rest, process_audio_chunk of                          *)
(* transcribe_microphone_realtime, is given to no recorder.                *)
TranscribeChunkRaises(w, failure) ==
  /\ w \in workers
  /\ failure \in Failures
  /\ workers' = workers \ {w}
  /\ TranscriptionCallback(ErrorText, FALSE)
  /\ UNCHANGED <<recVars, realtime_transcription, chunk_frames,
                 last_chunk_time, liveVars, stitchVars, segVars>>

(* start_recording, lines 82-87 *)
StartRecordingLock ==
  /\ caller.pc = "idle"
  /\ ~recording
  /\ \E i \in RecIds : rt[i].pc \in {"none", "done"}
  /\ buffer_lock = FREE
  /\ buffer_lock' = ByCaller
  /\ caller' = [caller EXCEPT !.pc = "clearing"]
  /\ UNCHANGED <<recording, frames, rt, captured, realtimeVars, notRec>>

(* start_recording, lines 88-111 *)
StartRecording ==
  /\ caller.pc = "clearing"
  /\ frames' = <<>>
  /\ buffer_lock' = FREE
  /\ recording' = TRUE
  /\ chunk_frames' = <<>>
  /\ last_chunk_time' = current_time
  /\ rt' = [rt EXCEPT ![RecFreeSlot] = [pc |-> "check", data |-> 0]]
  /\ caller' = [caller EXCEPT !.pc = "idle"]
  /\ UNCHANGED <<captured, realtime_transcription, workers, invocations,
                 notRec>>

(* stop_recording: no chunk processor to call, the pending chunk frames *)
(* are dropped                                                          *)
StopRecording ==
  /\ caller.pc = "idle"
  /\ recording
  /\ recording' = FALSE
  /\ chunk_frames' = <<>>
  /\ UNCHANGED <<frames, buffer_lock, rt, caller, captured,
                 realtime_transcription, last_chunk_time, workers,
                 invocations, notRec>>

(* get_frames, line 302 *)
GetFramesLock ==
  /\ caller.pc = "idle"
  /\ buffer_lock = FREE
  /\ buffer_lock' = ByCaller
  /\ caller' = [caller EXCEPT !.pc = "copying"]
  /\ UNCHANGED <<recording, frames, rt, captured, realtimeVars, notRec>>

(* get_frames, line 303 *)
GetFrames ==
  /\ caller.pc = "copying"
  /\ buffer_lock' = FREE
  /\ caller' = [pc |-> "idle", snapshot |-> ListCopy(frames)]
  /\ UNCHANGED <<recording, frames, rt, captured, realtimeVars, notRec>>

(* transcribe_recording, lines 324-326: if not self.frames *)
TranscribeRecordingCheck ==
  /\ caller.pc = "idle"
  /\ caller' = [caller EXCEPT !.pc = IF frames = <<>> THEN "idle" ELSE "concat"]
  /\ UNCHANGED <<recording, frames, buffer_lock, rt, captured,
                 realtimeVars, notRec>>

(* transcribe_recording, lines 329-341: np.concatenate(self.frames), and *)
(* the text is handed to the callback as the final one                  *)
TranscribeRecordingConcat ==
  /\ caller.pc = "concat"
  /\ caller' = [pc |-> "idle", snapshot |-> [alias |-> FALSE, items |-> frames]]
  /\ IF realtime_transcription
       THEN TranscriptionCallback(frames, TRUE)
       ELSE UNCHANGED <<invocations, guiVars>>
  /\ UNCHANGED <<recording, frames, buffer_lock, rt, captured,
                 realtime_transcription, chunk_frames, last_chunk_time,
                 workers, liveVars, stitchVars, segVars>>

(* realtime transcription off, as after construction *)
NextRec ==
  \/ \E i \in RecIds : RecordThread(i, MaxCaptured)
  \/ StartRecordingLock
  \/ StartRecording
  \/ StopRecording
  \/ GetFramesLock
  \/ GetFrames
  \/ TranscribeRecordingCheck
  \/ TranscribeRecordingConcat

SpecRec == Init /\ [][NextRec]_vars

(* lines 133-137 and 181-183: np.frombuffer or the append raises; the      *)
(* handler around the whole loop ends the thread                           *)
RecRaises(i) ==
  /\ rt[i].pc = "acquire"
  /\ recording' = FALSE
  /\ rt' = [rt EXCEPT ![i].pc = "done", ![i].data = 0]
  /\ UNCHANGED <<frames, buffer_lock, caller, captured, realtimeVars, notRec>>

(* a recording in which the buffering of a chunk may fail *)
NextRecFault ==
  \/ \E i \in RecIds : RecordThread(i, MaxCaptured)
  \/ \E i \in RecIds : RecRaises(i)
  \/ StartRecordingLock
  \/ StartRecording
  \/ StopRecording
  \/ GetFramesLock
  \/ GetFrames
  \/ TranscribeRecordingCheck
  \/ TranscribeRecordingConcat

SpecRecFault == Init /\ [][NextRecFault]_vars

(* The streaming sessions started so far *)
StreamingSessions ==
  Cardinality({k \in 1..Len(invocations) : invocations[k].text = StartedText})

(* AudioRecorderGUI.toggle_streaming, lines 136-157, with                *)
(* transcribe_microphone_realtime and set_realtime_transcription, up to  *)
(* lines 82-87 of the start_recording it runs; maxSessions bounds the    *)
(* streaming sessions of a run.  The record thread of the session before *)
(* has ended, as it does within one frame time of stop_recording.        *)
ToggleStreamingOn(maxSessions) ==
  /\ caller.pc = "idle"
  /\ ~recording
  /\ StreamingSessions < maxSessions
  /\ \A i \in RecIds : rt[i].pc \in {"none", "done"}
  /\ buffer_lock = FREE
  /\ buffer_lock' = ByCaller
  /\ caller' = [caller EXCEPT !.pc = "clearing"]
  /\ txt' = PanelNotice
  /\ accumulated_streaming_text' = StartedText
  /\ idle_tasks' = Append(idle_tasks, [text |-> StartedText, is_final |-> FALSE])
  /\ invocations' = Append(invocations,
                           [text |-> StartedText, is_final |-> FALSE])
  /\ realtime_transcription' = TRUE
  /\ chunk_frames' = <<>>
  /\ last_chunk_time' = current_time
  /\ UNCHANGED <<recording, frames, rt, captured, workers, live_transcribe,
                 liveVars, stitchVars, segVars>>

(* AudioRecorderGUI._update_streaming_text, run by the Tk main loop *)
UpdateStreamingText ==
  /\ idle_tasks # <<>>
  /\ LET task == Head(idle_tasks)
     IN  IF task.is_final
           THEN /\ txt' = task.text \o CompleteMark
                /\ UNCHANGED accumulated_streaming_text
           ELSE /\ accumulated_streaming_text' = task.text
                /\ txt' = task.text
  /\ idle_tasks' = Tail(idle_tasks)
  /\ UNCHANGED <<recVars, realtimeVars, live_transcribe, liveVars, stitchVars,
                 segVars>>

(* streaming sessions of the GUI: toggle_streaming starts and stops them *)
NextRealtime ==
  \/ \E i \in RecIds : RecordThread(i, MaxRealtimeFrames)
  \/ \E i \in RecIds : RecChunk(i)
  \/ \E w \in workers, heard \in BOOLEAN : TranscribeChunkReturns(w, heard)
  \/ \E w \in workers, failure \in Failures : TranscribeChunkRaises(w, failure)
  \/ ToggleStreamingOn(MaxStreamingSessions)
  \/ StartRecording
  \/ StopRecording
  \/ UpdateStreamingText

SpecRealtime == Init /\ [][NextRealtime]_vars

(* AudioRecorderGUI.toggle when not recording, lines 107-121: the panel is *)
(* emptied and two threads are started, one to run rec.start_recording     *)
(* (caller) and one to run _live_transcribe.  The button is pressed when   *)
(* the threads of the session before have ended; maxLaunches bounds the    *)
(* recordings of a run.                                                    *)
ToggleOn(maxLaunches) ==
  /\ caller.pc = "idle"
  /\ ~recording
  /\ live_transcribe.pc \in {"none", "done"}
  /\ live_transcribe.launches < maxLaunches
  /\ \A i \in RecIds : rt[i].pc \in {"none", "done"}
  /\ txt' = <<>>
  /\ caller' = [caller EXCEPT !.pc = "launched"]
  /\ live_transcribe' = [pc |-> "check", frames |-> <<>>,
                         launches |-> live_transcribe.launches + 1]
  /\ UNCHANGED <<recording, frames, buffer_lock, rt, captured, realtimeVars,
                 accumulated_streaming_text, idle_tasks,
                 liveVars, stitchVars, segVars>>

(* start_recording run by its thread, lines 82-87 *)
LaunchedStartRecordingLock ==
  /\ caller.pc = "launched"
  /\ IF recording
       THEN /\ caller' = [caller EXCEPT !.pc = "idle"]
            /\ UNCHANGED buffer_lock
       ELSE /\ buffer_lock = FREE
            /\ buffer_lock' = ByCaller
            /\ caller' = [caller EXCEPT !.pc = "clearing"]
  /\ UNCHANGED <<recording, frames, rt, captured, realtimeVars, notRec>>

ByLiveTranscribe == <<"live">>

(* _live_transcribe, line 319: while self.rec.get_recording_status() *)
LiveCheck ==
  /\ live_transcribe.pc = "check"
  /\ live_transcribe' =
       [live_transcribe EXCEPT !.pc = IF recording THEN "frames" ELSE "last"]
  /\ UNCHANGED <<recVars, realtimeVars, accumulated_streaming_text, txt,
                 idle_tasks, liveVars, stitchVars, segVars>>

(* the with statement of get_frames, called at lines 321 and 364 *)
LiveGetFramesLock ==
  /\ live_transcribe.pc \in {"frames", "last"}
  /\ buffer_lock = FREE
  /\ buffer_lock' = ByLiveTranscribe
  /\ live_transcribe' =
       [live_transcribe EXCEPT
          !.pc = IF @ = "frames" THEN "segment" ELSE "flush"]
  /\ UNCHANGED <<recording, frames, rt, caller, captured, realtimeVars,
                 accumulated_streaming_text, txt, idle_tasks,
                 liveVars, stitchVars, segVars>>

(* lines 321-360: one turn of the loop on the frames copied; what it       *)
(* queues for the panel is left to the Tk main loop                        *)
LiveSegment ==
  /\ live_transcribe.pc = "segment"
  /\ buffer_lock' = FREE
  /\ live_transcribe' = [live_transcribe EXCEPT !.pc = "check", !.frames = frames]
  /\ UNCHANGED <<recording, frames, rt, caller, captured, realtimeVars,
                 accumulated_streaming_text, txt, idle_tasks,
                 liveVars, stitchVars, segVars>>

(* lines 363-382: the frames left are transcribed and the thread ends *)
LiveFlush ==
  /\ live_transcribe.pc = "flush"
  /\ buffer_lock' = FREE
  /\ live_transcribe' = [live_transcribe EXCEPT !.pc = "done", !.frames = frames]
  /\ UNCHANGED <<recording, frames, rt, caller, captured, realtimeVars,
                 accumulated_streaming_text, txt, idle_tasks,
                 liveVars, stitchVars, segVars>>

(* plain recordings of the GUI: toggle starts and stops them *)
NextToggle ==
  \/ \E i \in RecIds : RecordThread(i, MaxCaptured)
  \/ ToggleOn(MaxSessions)
  \/ LaunchedStartRecordingLock
  \/ StartRecording
  \/ StopRecording
  \/ LiveCheck
  \/ LiveGetFramesLock
  \/ LiveSegment
  \/ LiveFlush

SpecToggle == Init /\ [][NextToggle]_vars

----------------------------------------------------------------------------
(* C1: at no moment are two transcribe_stream calls in flight on the       *)
(* recorder's transcriber, whatever the sequence of start() and stop().    *)
InFlight == {t \in ThreadIds : th[t].pc = "transcribing"}

C1_OneCallInFlight == Cardinality(InFlight) <= 1

(* C2: when a cut finds more than max_buffer_size samples and truncates,    *)
(* the shared sample buffer holds at most max_buffer_size samples after it. *)
C2_SharedBufferBounded ==
  [][\A t \in ThreadIds :
       /\ th[t].pc = "eval"
       /\ th'[t].pc = "transcribing"
       /\ ArrLen(th[t].audio_buffer) > max_buffer_size
       => ArrLen(accumulated') <= max_buffer_size]_vars

(* C3: every read or write of the shared buffer (append, snapshot, reset,   *)
(* whole-buffer read for transcription) is performed holding its lock.     *)
C3_AccessHoldsLock ==
  /\ \A i \in RecIds : rt[i].pc = "append" => buffer_lock = ByRecorder(i)
  /\ caller.pc \in {"clearing", "copying", "concat"} => buffer_lock = ByCaller

(* C4: a poll thread holds the buffer lock only while it copies the         *)
(* buffer: never while a transcription call runs, never while it sleeps.   *)
C4_LockOnlyForCopy ==
  \A t \in ThreadIds : lock = ByThread(t) => th[t].pc = "locked"

(* C5: 2 s of speech and then 0.8 s of silence give at most one cut in     *)
(* those 2.8 s; when every chunk is appended in the tick it is due, there  *)
(* is exactly one, and the rule that produces it is the adaptive-idle rule, *)
(* due 2 s after the start while the recorder is still in speech: a cut    *)
(* starts from last_position = 0 with the adaptive-idle trigger alone, and *)
(* it has started once the clock passes Epoch + SPEECH_TIME_THRESHOLD.     *)
OnTime == now <= Epoch + Delivered + 1

AtMostOneCut ==
  \A t \in ThreadIds : th[t].pc = "transcribing" => th[t].last_position = 0

CutByAdaptiveIdle ==
  /\ \A t \in ThreadIds : th[t].pc = "transcribing" => th[t].triggers = {"idle"}
  /\ now > Epoch + SPEECH_TIME_THRESHOLD
       => \E t \in ThreadIds :
            th[t].pc = "transcribing" \/ th[t].last_position > 0

C5_OneCutByAdaptiveIdle ==
  /\ []AtMostOneCut
  /\ []OnTime => []CutByAdaptiveIdle

(* the scenario has run to its end and the cut taken at 2 s has returned *)
C5_Witness ==
  /\ now = PauseEnd
  /\ Delivered = SpeechChunks + SilentChunks
  /\ \E t \in ThreadIds :
       /\ th[t].pc = "sleep"
       /\ th[t].last_position \in {SpeechChunks - 1, SpeechChunks}

(* C5, the rule of the cut: the cut of the scenario is the natural-pause    *)
(* rule's.                                                                 *)
C5_CutByNaturalPause ==
  \A t \in ThreadIds :
    th[t].pc = "transcribing" => "natural" \in th[t].triggers

(* C6: a tick of the poll loop submits at most one segment, however many   *)
(* of the four triggers hold at that tick.                                 *)
C6_OneSubmissionPerTick == \A t \in ThreadIds : th[t].submitted <= 1

C6_Witness ==
  \E t \in ThreadIds : th[t].submitted = 1 /\ Cardinality(th[t].triggers) >= 2
(* C7: for non-empty, non-identical texts, when the last k words of         *)
(* previous_text, for some k from 5 downward, occur as a run of words in   *)
(* current_text, the result is the words of current_text after that run,   *)
(* for the largest such k and its leftmost occurrence.                     *)
OverlapLengths(words_previous, words_current) ==
  {k \in 1..Min(Len(words_previous), 5) :
     \E i \in 0..(Len(words_current) - k) :
       MatchAt(words_previous, words_current, k, i)}

AfterLargestOverlap(words_previous, words_current) ==
  LET ks == OverlapLengths(words_previous, words_current)
      k == CHOOSE x \in ks : \A y \in ks : x >= y
      at == {i \in 0..(Len(words_current) - k) :
               MatchAt(words_previous, words_current, k, i)}
      i == CHOOSE x \in at : \A y \in at : x <= y
  IN Join(From(words_current, i + k))

C7_LargestOverlapDownward ==
  /\ st_pc = "done"
  /\ st_prev # <<>>
  /\ st_prev # st_cur
  /\ OverlapLengths(Split(st_prev), Split(st_cur)) # {}
  => st_out = AfterLargestOverlap(Split(st_prev), Split(st_cur))

(* C8: with an empty previous_text the result is current_text, unchanged.  *)
C8_EmptyPrevious ==
  st_pc = "done" /\ st_prev = <<>> => st_out = st_cur

C8_Witness ==
  /\ st_pc = "done"
  /\ st_prev = <<>>
  /\ st_cur = Join(<<"hello", "world">>)
  /\ st_out = st_cur

(* C9: when previous_text and current_text are the same non-empty text the *)
(* result is the empty string.                                             *)
C9_IdenticalGivesNothing ==
  st_pc = "done" /\ st_prev = st_cur /\ st_prev # <<>> => st_out = <<>>

C9_Witness ==
  /\ st_pc = "done"
  /\ st_prev = st_cur
  /\ Len(Split(st_prev)) = MaxWords
  /\ st_out = <<>>
(* C10: the sub-segments of a merged interval longer than the 6 s target   *)
(* cover it with no uncovered gap longer than 1 sample.                    *)
Covered(x) ==
  \E k \in 1..Len(processed_intervals) :
    processed_intervals[k][1] <= x /\ x < processed_intervals[k][2]

C10_SplitCoversInterval ==
  seg_pc = "segmented" =>
    \A k \in 1..Len(merged_intervals) :
      merged_intervals[k][2] - merged_intervals[k][1] > segment_samples
        => \A x \in merged_intervals[k][1]..(merged_intervals[k][2] - 2) :
             Covered(x) \/ Covered(x + 1)

(* C11: the merge combines the adjacent detected intervals whose gap is at  *)
(* most max_gap (300 ms) and no others: the merged intervals are ordered   *)
(* and more than max_gap apart, every detected interval lies in one of     *)
(* them, and each spans from the start of its first detected interval to   *)
(* the end of its last, the gaps inside it being at most max_gap.          *)
DetectedIn(k) ==
  {i \in 1..Len(non_silent_intervals) :
     /\ merged_intervals[k][1] <= non_silent_intervals[i][1]
     /\ non_silent_intervals[i][2] <= merged_intervals[k][2]}

C11_MergeWithinMaxGap ==
  seg_pc \in {"merged", "segmented"} =>
    /\ \A k \in 1..Len(merged_intervals) :
         /\ merged_intervals[k][1] < merged_intervals[k][2]
         /\ k < Len(merged_intervals)
              => merged_intervals[k + 1][1] - merged_intervals[k][2] > max_gap
         /\ DetectedIn(k) # {}
         /\ \E i \in DetectedIn(k), j \in DetectedIn(k) :
              /\ \A x \in DetectedIn(k) : i <= x /\ x <= j
              /\ merged_intervals[k] =
                   <<non_silent_intervals[i][1], non_silent_intervals[j][2]>>
         /\ \A i \in DetectedIn(k) :
              i + 1 \in DetectedIn(k)
                => non_silent_intervals[i + 1][1] - non_silent_intervals[i][2]
                     <= max_gap
    /\ \A i \in 1..Len(non_silent_intervals) :
         \E k \in 1..Len(merged_intervals) : i \in DetectedIn(k)

(* a 20 s recording with one gap of max_gap at 10 s is merged into one     *)
(* interval from 0 s to 20 s                                               *)
C11_Witness ==
  /\ seg_pc = "merged"
  /\ y_len = 12 * sr
  /\ non_silent_intervals = <<<<0, 6 * sr>>, <<6 * sr + max_gap, 12 * sr>>>>
  /\ merged_intervals = <<<<0, 12 * sr>>>>
(* C12: in every streaming session the callback is invoked with is_final = *)
(* TRUE exactly once; that invocation comes after the stop, and the frames *)
(* captured but not yet handed to a transcription when the session is     *)
(* stopped are handed to one before it; no invocation with is_final = TRUE *)
(* happens while the session is recording.                                 *)
FinalInvocations ==
  {k \in 1..Len(invocations) : invocations[k].is_final}

SessionOver ==
  /\ realtime_transcription
  /\ ~recording
  /\ caller.pc = "idle"
  /\ \A i \in RecIds : rt[i].pc \in {"none", "done"}
  /\ workers = {}
  /\ idle_tasks = <<>>

C12_FinalOnceAfterStop ==
  /\ [](SessionOver => Cardinality(FinalInvocations) = StreamingSessions)
  /\ [][/\ (recording /\ ~recording' /\ realtime_transcription
              /\ chunk_frames # <<>>)
             => \E w \in workers' : w \notin workers
        /\ (\E k \in 1..Len(invocations') :
              k > Len(invocations) /\ invocations'[k].is_final)
             => ~recording]_vars

(* C13: when a transcribe_stream call of the poll loop raises, the loop is *)
(* not ended: the tick is finished as after a call that returned nothing   *)
(* and the thread goes on to its sleep and to the later ticks.             *)
C13_GatewayErrorNotFatal ==
  [][\A t \in ThreadIds : LoopTranscribeRaises(t) => th'[t].pc = "sleep"]_vars

(* C14: a poll thread whose session was stopped starts no transcription    *)
(* call after the tick that was in progress at the stop, whatever follows, *)
(* a start() right after the stop() included: once stop() has returned,    *)
(* the only thread that starts a call is the one of the running session.   *)
C14_StoppedLoopStartsNoCall ==
  [][\A t \in ThreadIds :
       (th[t].pc = "eval" /\ th'[t].pc = "transcribing")
         => t = process_thread]_vars

(* C15: a chunk that is not silent, met while silent, sets is_speech and   *)
(* stamps speech_start with the time; a silent chunk met while speaking    *)
(* clears is_speech and stamps silence_start; a chunk of the same          *)
(* classification leaves is_speech and both stamps as they are.  Once      *)
(* start() has initialised the session to silent, is_speech changes at no  *)
(* other step, so the two transitions alternate.                           *)
C15_VadTransitions ==
  [][/\ CallbackVad =>
          /\ (~cb.silent /\ ~is_speech) =>
                /\ is_speech'
                /\ speech_start' = now
                /\ silence_start' = silence_start
          /\ (cb.silent /\ is_speech) =>
                /\ ~is_speech'
                /\ silence_start' = now
                /\ speech_start' = speech_start
          /\ (cb.silent <=> ~is_speech) =>
                UNCHANGED <<is_speech, speech_start, silence_start>>
     /\ (is_speech' # is_speech /\ ctl.pc # "reset") =>
          /\ cb.pc = "vad"
          /\ cb'.pc = "idle"
          /\ cb.silent <=> is_speech]_vars

(* a chunk of speech and later a silent one: both transitions were taken *)
C15_Witness ==
  /\ cb.pc = "idle"
  /\ ~is_speech
  /\ silence_start = now
  /\ 0 < speech_start
  /\ speech_start < silence_start

(* C16: within a streaming session the transcript shown to the user only   *)
(* grows: at every step that changes it, the text before the step is a     *)
(* prefix of the text after it; it is emptied only when a session starts.  *)
(* The notices of a starting session count as the empty transcript.        *)
IsPrefix(a, b) == Len(a) <= Len(b) /\ SubSeq(b, 1, Len(a)) = a

Transcript(text) == IF text \in {StartedText, PanelNotice} THEN <<>> ELSE text

C16_TranscriptGrows ==
  [][StreamingSessions' = StreamingSessions =>
       /\ IsPrefix(Transcript(accumulated_streaming_text),
                   Transcript(accumulated_streaming_text'))
       /\ IsPrefix(Transcript(txt), Transcript(txt'))]_vars

(* C17: when a cut of the poll loop has a text, the text given to          *)
(* on_transcription is the stitcher's output for the text of the cut       *)
(* before (the context) and the new text: only what the context does not   *)
(* hold already, not the whole text of the segment sent again.             *)
C17_SurfacedIsStitched ==
  [][\A t \in ThreadIds :
       (/\ th[t].pc = "transcribing"
        /\ th'[t].pc = "sleep"
        /\ th'[t].transcription # <<>>)
         => th'[t].surfaced =
              ExtractNewContent(th[t].transcription, th'[t].transcription)]_vars

(* C18: the list get_frames returned is the consumer's own: as long as the *)
(* consumer holds it, what it reads in it stays the same, items and        *)
(* length, whatever the record thread appends to the deque or the deque    *)
(* drops meanwhile.                                                        *)
C18_SnapshotIndependent ==
  [][caller'.snapshot = caller.snapshot
       => Contents(caller.snapshot)' = Contents(caller.snapshot)]_vars

(* a snapshot of two frames is held while a third frame is appended and *)
(* the deque, full, drops the first                                     *)
C18_Witness ==
  /\ caller.pc = "idle"
  /\ Contents(caller.snapshot) = <<1, 2>>
  /\ frames = <<2, 3>>

(* C19: at every cut the segment handed to transcribe_stream is the last   *)
(* min(length, max_buffer_size) samples of the snapshot, in their order:   *)
(* the whole buffer kept, up to its newest sample, and not only the        *)
(* samples that came after the cut before.                                 *)
C19_SubmittedIsTail ==
  [][\A t \in ThreadIds :
       (th[t].pc = "eval" /\ th'[t].pc = "transcribing") =>
         LET snapshot == th[t].audio_buffer
             n == Min(ArrLen(snapshot), max_buffer_size)
         IN  th'[t].audio_buffer = <<snapshot[2] - n, snapshot[2]>>]_vars

(* a second cut, on a snapshot longer than max_buffer_size: the segment *)
(* is its last max_buffer_size samples, those of the first cut included *)
C19_Witness ==
  \E t \in ThreadIds :
    /\ th[t].pc = "transcribing"
    /\ th[t].last_position > 0
    /\ th[t].current_position > max_buffer_size
    /\ th[t].audio_buffer =
         <<accumulated[1] + th[t].current_position - max_buffer_size,
           accumulated[1] + th[t].current_position>>

(* C20: in a streaming session of AudioRecorder no chunk is handed to a    *)
(* transcription while the transcription of an earlier chunk has not       *)
(* returned: at most one _transcribe_chunk thread runs at a time.          *)
C20_OneChunkInFlight == Cardinality(workers) <= 1

(* C21: the batch segmenter gives the segments to the gateway in strict    *)
(* temporal order: the first call for a segment starts at a later frame    *)
(* than the first call for every segment before it, the segments made by   *)
(* padding short intervals included.                                       *)
IsRetry(i) == i > 1 /\ gateway_calls[i - 1].segment = gateway_calls[i].segment

C21_SegmentsInTemporalOrder ==
  \A i \in 1..Len(gateway_calls), j \in 1..Len(gateway_calls) :
    (i < j /\ ~IsRetry(i) /\ ~IsRetry(j))
      => gateway_calls[i].start_frame < gateway_calls[j].start_frame

(* C22: what the batch path returns has one labeled entry for each         *)
(* segment whose transcript is not empty, in the order of the segments,    *)
(* and then the full text, which holds every transcript that is not empty, *)
(* in order; a segment that follows one with an empty transcript has its   *)
(* entry too.                                                              *)
RECURSIVE NonEmptySegments(_, _)
NonEmptySegments(raw, i) ==
  IF i > Len(raw) THEN <<>>
  ELSE (IF Strip(raw[i]) # <<>> THEN <<i>> ELSE <<>>) \o NonEmptySegments(raw, i + 1)

RECURSIVE JoinTexts(_, _)
JoinTexts(raw, segments) ==
  IF segments = <<>> THEN <<>>
  ELSE IF Len(segments) = 1 THEN raw[segments[1]]
  ELSE raw[segments[1]] \o <<" ">> \o JoinTexts(raw, Tail(segments))

C22_EntryPerNonEmptySegment ==
  seg_pc = "returned" =>
    LET segments == NonEmptySegments(raw_segments, 1)
    IN /\ [k \in 1..Len(result.processed_segments) |->
             result.processed_segments[k].label] = segments
       /\ segments # <<>> =>
            result.full_text = JoinTexts(raw_segments, segments)

(* C23: no segment shorter than 0.5 s is given to the gateway, with the    *)
(* silence intervals or with the fixed windows, a recording that is itself *)
(* shorter than 0.5 s included.                                            *)
C23_NoSegmentUnderHalfSecond ==
  \A i \in 1..Len(gateway_calls) : 2 * gateway_calls[i].num_frames >= rate

(* C30: every segment of the silence-interval segmenter lies within the    *)
(* recording, 0 <= start < end <= the number of samples, and so do the     *)
(* frames read for it; a merged interval shorter than 1.0 s is widened by  *)
(* 0.5 s on each side and clipped to the recording, and no other interval  *)
(* is widened: every other segment lies within a merged interval of 1.0 s  *)
(* or more.                                                                *)
IsShort(interval) == interval[2] - interval[1] < sr

Widened(interval) ==
  <<Max(0, interval[1] - padding), Min(y_len, interval[2] + padding)>>

C30_SegmentsWithinRecording ==
  seg_pc = "segmented" =>
    /\ \A k \in 1..Len(processed_intervals) :
         LET segment == processed_intervals[k]
         IN /\ 0 <= segment[1] /\ segment[1] < segment[2] /\ segment[2] <= y_len
            /\ 0 <= StartFrame(segment) /\ NumFrames(segment) > 0
            /\ StartFrame(segment) + NumFrames(segment) <= n_frames
            /\ \E m \in 1..Len(merged_intervals) :
                 IF IsShort(merged_intervals[m])
                   THEN segment = Widened(merged_intervals[m])
                   ELSE /\ merged_intervals[m][1] <= segment[1]
                        /\ segment[2] <= merged_intervals[m][2]
    /\ \A m \in 1..Len(merged_intervals) :
         IsShort(merged_intervals[m]) =>
           \E k \in 1..Len(processed_intervals) :
             processed_intervals[k] = Widened(merged_intervals[m])

C30_Witness ==
  /\ seg_pc = "segmented"
  /\ Len(merged_intervals) = 2
  /\ IsShort(merged_intervals[1]) /\ merged_intervals[1][1] < padding
  /\ ~IsShort(merged_intervals[2])
  /\ merged_intervals[2][2] - merged_intervals[2][1] > segment_samples
  /\ processed_intervals[1] = <<0, merged_intervals[1][2] + padding>>
  /\ Len(processed_intervals) > 2

(* C24: an error raised while a captured chunk is read or buffered is      *)
(* caught in the record thread and the capture loop goes on with the next  *)
(* chunk: the recording status is as it was and the frames buffered so far *)
(* are kept.                                                               *)
C24_CaptureErrorCaught ==
  [][\A i \in RecIds :
       (RecReadError(i) \/ RecRaises(i))
         => /\ rt'[i].pc = "check"
            /\ recording' = recording
            /\ frames' = frames]_vars

(* C26: the poll loop never submits a segment at a tick where no new       *)
(* sample has arrived since the previous cut (an empty or unchanged buffer *)
(* only makes it wait), and at a tick less than 5.0 s after the previous   *)
(* cut it submits only when at least min_samples new samples are there.    *)
C26_NoCutWithoutNewSamples ==
  [][\A t \in ThreadIds :
       (th[t].pc = "eval" /\ th'[t].pc = "transcribing")
         => /\ NewSamples(t) > 0
            /\ TimeSinceLastProcess(t) < force_process_interval
                 => NewSamples(t) >= min_samples]_vars

(* a cut less than 5.0 s after the start has been made and has returned,   *)
(* and a later tick, 5.0 s or more after it, finds no new sample and waits *)
C26_Witness ==
  \E t \in ThreadIds :
    /\ th[t].pc = "sleep"
    /\ th[t].triggers = {}
    /\ th[t].last_position >= min_samples
    /\ th[t].last_process_time < Epoch + force_process_interval
    /\ NewSamples(t) = 0
    /\ TimeSinceLastProcess(t) >= force_process_interval

(* C25: the absolute forced cut is a bounded response.  A tick that finds  *)
(* at least one new sample 5.0 s or more after the last cut makes a cut,   *)
(* with fewer than min_samples new samples too and whatever the activity   *)
(* state; so while the producer runs, the time from a cut to the next is   *)
(* at most 5.0 s, one poll interval and the time transcribe_stream takes:  *)
(* a poll thread that has made a cut, is not waiting for transcribe_stream *)
(* and has a new sample in the buffer is never more than 5.0 s and one     *)
(* poll interval past the return of its last cut.                          *)
ForcedCutAtTick ==
  \A t \in ThreadIds :
    (/\ th[t].pc = "eval" /\ th'[t].pc # "eval"
     /\ TimeSinceLastProcess(t) >= force_process_interval
     /\ NewSamples(t) > 0)
      => th'[t].pc = "transcribing"

CutWithinInterval ==
  \A t \in ThreadIds :
    (/\ th[t].pc \notin {"dead", "transcribing"}
     /\ th[t].last_position > 0
     /\ ArrLen(accumulated) > th[t].last_position)
      => TimeSinceLastProcess(t) <= force_process_interval + POLL_SLEEP

C25_ForcedCutBounded == [][ForcedCutAtTick]_vars /\ []CutWithinInterval

(* a second cut, made by the forced rule alone while speaking, at the      *)
(* first tick 5.0 s after the cut before it, with few new samples          *)
C25_Witness ==
  \E t \in ThreadIds :
    /\ th[t].pc = "transcribing"
    /\ th[t].triggers = {"forced"}
    /\ th[t].last_position > 0
    /\ NewSamples(t) > 0 /\ NewSamples(t) < min_samples
    /\ is_speech
    /\ TimeSinceLastProcess(t) = force_process_interval

(* C27: the forced speech break fires at a tick only if the recorder has   *)
(* been speaking without a break for 7.0 s or more, counted from the later *)
(* of the last change from silent to speaking and the last cut made while  *)
(* speaking, under every interleaving of the callback's two unlocked       *)
(* writes (the flag, then speech_start) with the poll loop.  speech_start  *)
(* is that moment but between the two writes, when the change to speaking  *)
(* has just been made.                                                     *)
JustStartedSpeaking == cb.pc = "stamp" /\ ~cb.silent

C27_SpeechBreakAfterSevenSeconds ==
  [][\A t \in ThreadIds :
       (th[t].pc = "eval" /\ "speech" \in th'[t].triggers)
         => /\ is_speech
            /\ ~JustStartedSpeaking
            /\ now - speech_start >= MAX_SPEECH_DURATION]_vars

(* C28: when a cut returns, speech_start is set to that moment if the      *)
(* recorder is speaking and silence_start is cleared if it is silent; the  *)
(* natural-pause rule fires only while silent with silence_start set, and  *)
(* silence_start is set only by a change from speaking to silent: so after *)
(* a cut made while silent the rule cannot fire again before a new change  *)
(* from speaking to silent, and after start() it cannot fire before the    *)
(* first one of the session.  The callback's change of state is one step   *)
(* here; SpecRace takes its two writes apart.                              *)
CutReturns(t) == th[t].pc = "transcribing" /\ th'[t].pc = "sleep"

C29_ShrinkOnlyWithoutMatch ==
  (st_pc = "done" /\ st_prev # <<>>) =>
    LET words_previous == Split(st_prev)
        words_current == Split(st_cur)
        k == Min(Len(words_previous), 5)
        runs == {i \in 0..(Len(words_current) - k) :
                   MatchAt(words_previous, words_current, k, i)}
    IN (Len(words_current) < Len(words_previous) /\ runs # {})
         => st_out = Join(From(words_current,
                               (CHOOSE i \in runs : \A j \in runs : i <= j) + k))

(* C31: with the fixed windows (no silence detection, or no interval       *)
(* found) the windows start at the successive multiples of a quarter of    *)
(* the window length, each is min(window length, frames left) long, a      *)
(* final window shorter than 1.5 s is not transcribed, and the transcribed *)
(* windows together cover the whole recording.                             *)
Window(i) == gateway_calls[i]

WindowPlaced(i) ==
  /\ Window(i).start_frame = (Window(i).segment - 1) * (segment_frames \div 4)
  /\ Window(i).num_frames =
       Min(segment_frames, n_frames - Window(i).start_frame)

InWindow(frame) ==
  \E i \in 1..Len(gateway_calls) :
    /\ ~IsRetry(i)
    /\ Window(i).start_frame <= frame
    /\ frame < Window(i).start_frame + Window(i).num_frames

WindowsCover ==
  seg_pc = "returned" => \A frame \in 0..(n_frames - 1) : InWindow(frame)

C31_FixedWindowsCover ==
  ~use_silence_detection =>
    /\ \A i \in 1..Len(gateway_calls) :
         ~IsRetry(i) => /\ WindowPlaced(i)
                        /\ 2 * Window(i).num_frames >= 3 * rate
    /\ WindowsCover

(* C31 as the code has it: the window shorter than 1.5 s is left out when  *)
(* it is not the first one; a recording shorter than 1.5 s is one window,  *)
(* and it is transcribed.                                                  *)
C31_FixedWindowsCoverButFirst ==
  ~use_silence_detection =>
    /\ \A i \in 1..Len(gateway_calls) :
         ~IsRetry(i) => /\ WindowPlaced(i)
                        /\ Window(i).segment > 1
                             => 2 * Window(i).num_frames >= 3 * rate
    /\ WindowsCover

(* a recording whose last window, the fifth, is shorter than 1.5 s and was *)
(* left out, the four before it transcribed                                *)
C31_Witness ==
  /\ ~use_silence_detection
  /\ seg_pc = "returned"
  /\ segment_count = 5
  /\ 2 * (n_frames - 4 * effective_step) < 3 * rate
  /\ \A i \in 1..Len(gateway_calls) : Window(i).segment < 5
  /\ \E i \in 1..Len(gateway_calls) : Window(i).segment = 4

(* C32: a batch segment is given to the gateway at most twice; the second  *)
(* call is made only for a segment longer than 1.0 s (silence intervals)   *)
(* or 2.0 s (fixed windows), with the same context, on the span of the     *)
(* first call widened by 0.5 s on each side and clipped to the recording;  *)
(* one fragment is recorded for the segment whatever the second call       *)
(* returns.                                                                *)
EndFrame(call) == call.start_frame + call.num_frames

RetryThreshold == IF use_silence_detection THEN rate ELSE rate * 2

WidenedEachSide(call) ==
  <<Max(0, call.start_frame - rate \div 2),
    Min(n_frames, EndFrame(call) + rate \div 2)>>

C32_RetryOnceSymmetric ==
  /\ \A i \in 1..Len(gateway_calls) :
       IsRetry(i) =>
         /\ ~IsRetry(i - 1)
         /\ gateway_calls[i - 1].num_frames > RetryThreshold
         /\ gateway_calls[i].initial_prompt = gateway_calls[i - 1].initial_prompt
         /\ <<gateway_calls[i].start_frame, EndFrame(gateway_calls[i])>>
              = WidenedEachSide(gateway_calls[i - 1])
  /\ Len(raw_segments) = Cardinality({gateway_calls[i].segment :
                                        i \in 1..Len(gateway_calls)})

(* C33: in the batch path the context given to the gateway for a segment   *)
(* is the transcript recorded for the segment transcribed just before it,  *)
(* an empty transcript included, and there is no context for the first     *)
(* one.                                                                    *)
FragmentIndex(i) ==
  Cardinality({gateway_calls[j].segment : j \in 1..i})

C33_ContextIsPrecedingTranscript ==
  \A i \in 1..Len(gateway_calls) :
    gateway_calls[i].initial_prompt =
      IF FragmentIndex(i) = 1 THEN <<>> ELSE raw_segments[FragmentIndex(i) - 1]

(* C35: for all previous_text and current_text the words of the result are *)
(* a suffix of the words of current_text, empty or whole at the two ends:  *)
(* no word is invented, none reordered, and none returned without the      *)
(* words that follow it in current_text.                                   *)
IsSuffix(a, b) == Len(a) <= Len(b) /\ From(b, Len(b) - Len(a)) = a

C35_ResultIsSuffix ==
  st_pc = "done" => IsSuffix(Split(st_out), Split(st_cur))

(* the second half of current_text returned when no overlap was found *)
C35_Witness ==
  /\ st_pc = "done"
  /\ st_prev = Join(<<"the", "quick", "brown", "fox">>)
  /\ st_cur = Join(<<"quick", "brown", "fox", "jumps", "high">>)
  /\ Split(st_out) = <<"fox", "jumps", "high">>

(* C36: when previous_text has 1 to 5 words and current_text is            *)
(* previous_text followed by one or more words, the result is those words: *)
(* the words of previous_text followed by the words of the result are the  *)
(* words of current_text.                                                  *)
Extends(words_previous, words_current) ==
  /\ Len(words_previous) \in 1..5
  /\ Len(words_current) > Len(words_previous)
  /\ IsPrefix(words_previous, words_current)

C36_ReturnsTheExtraWords ==
  (st_pc = "done" /\ Extends(Split(st_prev), Split(st_cur))) =>
    /\ st_out = Join(From(Split(st_cur), Len(Split(st_prev))))
    /\ Split(st_prev) \o Split(st_out) = Split(st_cur)

(* five words, then the same five and one more: the one more is returned *)
C36_Witness ==
  /\ st_pc = "done"
  /\ Len(Split(st_prev)) = 5
  /\ Len(Split(st_cur)) = 6
  /\ Extends(Split(st_prev), Split(st_cur))
  /\ st_out = <<Split(st_cur)[6]>>

(* C38: at every tick of a poll loop, the samples counted as processed     *)
(* (last_position) are at most the length of the shared buffer read at     *)
(* that tick, so the count of new samples is not negative, after any       *)
(* sequence of appends, cuts, stop() and start().                          *)
C38_NewSamplesNeverNegative ==
  \A t \in ThreadIds :
    th[t].pc = "eval" => /\ th[t].last_position <= th[t].current_position
                         /\ NewSamples(t) >= 0

(* C39: when on_transcription raises, the poll loop is not ended and its   *)
(* bookkeeping is as after a call that returned: last_position and the     *)
(* time of the last cut are advanced for that cut, silence_start is        *)
(* cleared if silent and speech_start set to the moment if speaking, and   *)
(* the thread goes to its sleep and to the later ticks; it ends only when  *)
(* the session is stopped.                                                 *)
C39_CallbackErrorNotFatal ==
  /\ [][\A t \in ThreadIds :
          LoopCallbackRaises(t) =>
            /\ th'[t].pc = "sleep"
            /\ th'[t].last_position = th[t].current_position
            /\ th'[t].last_process_time = now
            /\ silence_start' = (IF ~is_speech THEN 0 ELSE silence_start)
            /\ speech_start' = (IF is_speech THEN now ELSE speech_start)]_vars
  /\ [](\A t \in ThreadIds :
          (th[t].callback_error /\ ~Alive(t)) => stop_event)

(* a segment submitted at a later tick by a thread whose callback raised   *)
(* at an earlier cut                                                       *)
C39_Witness ==
  \E t \in ThreadIds :
    /\ th[t].callback_error
    /\ th[t].pc = "transcribing"
    /\ th[t].last_position > 0
    /\ NewSamples(t) > 0

(* C37: a plain recording started from the GUI runs start_recording and    *)
(* _live_transcribe in two threads in no order; under every interleaving   *)
(* the live loop is left, and the last frames are transcribed, only after  *)
(* the thread of start_recording has cleared the frames of the recording   *)
(* before and set the recording flag, and the recording was stopped: the   *)
(* loop runs as long as the recording is active.                           *)
RecordingStarted == caller.pc = "idle"

C37_LiveLoopOutlivesStart ==
  /\ [][(live_transcribe.pc = "check" /\ live_transcribe'.pc = "last")
          => RecordingStarted /\ ~recording]_vars
  /\ [](live_transcribe.pc \in {"last", "flush", "done"}
          => RecordingStarted)

(* C34: when the transcription of a streaming chunk fails with a mismatch  *)
(* of dimensions the same chunk is transcribed once more, and no error is  *)
(* reported for the first failure; any other failure is not retried and    *)
(* is reported to the callback as a fragment tagged as an error, the       *)
(* handler of the chunk ending without it.                                 *)
Retried(w) == w \in workers' /\ invocations' = invocations

ReportedAsError(w) ==
  /\ w \notin workers'
  /\ invocations' = Append(invocations, [text |-> ErrorText, is_final |-> FALSE])

C34_MismatchRetriedOnce ==
  [][\A w \in workers :
       /\ TranscribeChunkRaises(w, "mismatch") => Retried(w)
       /\ TranscribeChunkRaises(w, "other") => ReportedAsError(w)]_vars

====
